---- MODULE Spec2Model ----
(***************************************************************************)
(* CoIoTeSolver: the time-bounded parallel greedy + chained-improvement    *)
(* solver (coiote_solver::solve and everything it runs), as a state        *)
(* machine.  Indices are 0-based as in the source; a 4-index is            *)
(* <<i, j, m, t>> and a 3-index is <<i, m, t>>.                            *)
(*                                                                         *)
(* Numbers.  Costs are integers stored in doubles; every objective value   *)
(* is an integer sum, so it is modelled exactly.  A reduced cost c/d and a *)
(* usage n/u are compared by cross-multiplication, which is what the       *)
(* correctly rounded double division decides for the small integers of the *)
(* instances below.  +infinity is the value Infinity, above every          *)
(* objective an instance can produce.                                      *)
(*                                                                         *)
(* Unspecified order.  std::sort is not stable: elements the comparator    *)
(* holds equivalent end in any order.  Every sort is a choice among the    *)
(* orders the comparator allows.  std::shuffle is a choice among all       *)
(* permutations.                                                           *)
(***************************************************************************)
EXTENDS Integers, Sequences, FiniteSets, TLC

VARIABLES
    problem,                 \* input_problem, read-only after the constructor
    statistics,              \* global_statistics
    nthreads,                \* number of worker threads solve() fires
    time_finished,           \* volatile bool coiote_solver::time_finished
    fewusers_time_finished,  \* volatile bool coiote_solver::fewusers_time_finished
    timers,                  \* normal_timer and fewusers_timer of solve()
    sv,                      \* solve(): its position, its locals, and the members it writes
    param,                   \* th_parameter of each worker
    th                       \* thread_body of each worker: its position and its locals

vars == <<problem, statistics, nthreads, time_finished, fewusers_time_finished,
          timers, sv, param, th>>

\* ------------------------------------------------------------------ bounds

\* Largest number of workers a run of the model fires (the source fires 8).
MaxThreads == 2

\* Cap on the greedy runs a single worker starts (th_parameter::iterations is
\* unbounded); above iteration_limit, so that the improving phase is reached.
MaxIterations == 11

\* Cap on the greedy runs several workers start in all (iter_counter is unbounded).
MaxSharedIterations == 3

\* ------------------------------------------------------- program constants

Infinity == 1000000

iteration_limit == 10

min_gain == -4

max_level == 5

max_count == 20

\* ------------------------------------------------------------------ helpers

Min(a, b) == IF a <= b THEN a ELSE b

Max(a, b) == IF a >= b THEN a ELSE b

\* The sum of the integers f[x] for x in S, counted as the units above zero
\* less the units below it.
SumOver(f, S) ==
    Cardinality(UNION {{<<x, k>> : k \in 1 .. f[x]} : x \in S})
        - Cardinality(UNION {{<<x, k>> : k \in 1 .. (0 - f[x])} : x \in S})

\* ceil(a / b) for a >= 0, b > 0
CeilDiv(a, b) == (a + b - 1) \div b

Range(s) == {s[k] : k \in DOMAIN s}

\* Every order std::sort may leave `s` in under the strict weak ordering
\* `before` (a set of pairs <<x, y>>: x goes before y).
RECURSIVE SortedPositions(_, _, _)
SortedPositions(s, D, before) ==
    IF D = {} THEN {<<>>}
    ELSE UNION {
        {<<s[p]>> \o rest : rest \in SortedPositions(s, D \ {p}, before)} :
        p \in {q \in D : \A r \in D : <<s[r], s[q]>> \notin before} }

std_sort(s, before) == SortedPositions(s, DOMAIN s, before)

\* Every order std::shuffle may leave `s` in.
std_shuffle(s) == SortedPositions(s, DOMAIN s, {})

\* ------------------------------------------------------------- the instance

Cells == 0 .. (problem.n_cells - 1)
Types == 0 .. (problem.n_cust_types - 1)
Times == 0 .. (problem.n_time_steps - 1)

three_dimensions == {<<i, m, t>> : i \in Cells, m \in Types, t \in Times}
four_dimensions == {<<i, j, m, t>> : i \in Cells, j \in Cells, m \in Types, t \in Times}

convert_index(idx) == <<idx[1], idx[3], idx[4]>>

\* input_problem as the constructor leaves it; `ua` and `costs` list the
\* non-zero entries.
input_problem(nc, nm, nt, apu, act, ua, costs) ==
    [ n_cells |-> nc, n_cust_types |-> nm, n_time_steps |-> nt,
      act_per_user |-> [m \in 0 .. (nm - 1) |-> apu[m + 1]],
      activities |-> [j \in 0 .. (nc - 1) |-> act[j + 1]],
      users_available |->
          [x \in {<<i, m, t>> : i \in 0 .. (nc - 1), m \in 0 .. (nm - 1), t \in 0 .. (nt - 1)} |->
              IF x \in DOMAIN ua THEN ua[x] ELSE 0],
      costs |->
          [x \in {<<i, j, m, t>> : i \in 0 .. (nc - 1), j \in 0 .. (nc - 1),
                                   m \in 0 .. (nm - 1), t \in 0 .. (nt - 1)} |->
              IF x \in DOMAIN costs THEN costs[x] ELSE 0] ]

\* S1: one user, one activity.
InstanceS1 ==
    input_problem(2, 1, 1, <<1>>, <<0, 1>>,
        (<<0, 0, 0>> :> 1),
        (<<0, 1, 0, 0>> :> 7) @@ (<<1, 0, 0, 0>> :> 7))

\* S2: as S1 with a demand of 3 that one user cannot meet.
InstanceS2 ==
    input_problem(2, 1, 1, <<1>>, <<0, 3>>,
        (<<0, 0, 0>> :> 1),
        (<<0, 1, 0, 0>> :> 7) @@ (<<1, 0, 0, 0>> :> 7))

\* S3: one user of each of two types (1 and 3 activities) for a demand of 3.
InstanceS3 ==
    input_problem(2, 2, 1, <<1, 3>>, <<0, 3>>,
        (<<0, 0, 0>> :> 1) @@ (<<0, 1, 0>> :> 1),
        (<<0, 1, 0, 0>> :> 10) @@ (<<0, 1, 1, 0>> :> 15))

\* S4: two sources at the same cost for one activity.
InstanceS4 ==
    input_problem(3, 1, 1, <<1>>, <<0, 0, 1>>,
        (<<0, 0, 0>> :> 1) @@ (<<1, 0, 0>> :> 1),
        (<<0, 2, 0, 0>> :> 5) @@ (<<1, 2, 0, 0>> :> 5))

\* S5: users of 2 and 3 activities whose total capacity equals the demand
\* (4 + 3): the standard greedy wastes an activity in every visiting order.
InstanceS5 ==
    input_problem(3, 2, 1, <<2, 3>>, <<0, 4, 3>>,
        (<<0, 0, 0>> :> 2) @@ (<<0, 1, 0>> :> 1),
        (<<0, 1, 0, 0>> :> 4) @@ (<<0, 1, 1, 0>> :> 3) @@
        (<<0, 2, 0, 0>> :> 1) @@ (<<0, 2, 1, 0>> :> 6))

\* S6: two destinations compete for the cheap bucket <<0,0,0>>; visiting
\* cell 1 first leaves cell 2 the expensive one, and a chain of two moves
\* repairs it.
InstanceS6 ==
    input_problem(3, 1, 2, <<1>>, <<0, 1, 1>>,
        (<<0, 0, 0>> :> 1) @@ (<<0, 0, 1>> :> 1),
        (<<0, 1, 0, 0>> :> 1) @@ (<<0, 2, 0, 0>> :> 1) @@
        (<<0, 1, 0, 1>> :> 2) @@ (<<0, 2, 0, 1>> :> 10))

\* S7: users of 1 and 2 activities for a demand of 4; replacing a user of one
\* activity by one of two leaves an activity in excess.  The destination cell
\* has a user of its own, at no cost.
InstanceS7 ==
    input_problem(3, 2, 1, <<1, 2>>, <<0, 4, 0>>,
        (<<0, 0, 0>> :> 2) @@ (<<0, 1, 0>> :> 1) @@ (<<2, 0, 0>> :> 1) @@ (<<1, 0, 0>> :> 1),
        (<<0, 1, 0, 0>> :> 4) @@ (<<0, 1, 1, 0>> :> 6) @@ (<<2, 1, 0, 0>> :> 5))

\* S8: as S3 with the user of 1 activity at cost 4: the greedy takes it first
\* (reduced cost 4 against 5), then the user of 3 activities, which leaves an
\* activity in excess.
InstanceS8 ==
    input_problem(2, 2, 1, <<1, 3>>, <<0, 3>>,
        (<<0, 0, 0>> :> 1) @@ (<<0, 1, 0>> :> 1),
        (<<0, 1, 0, 0>> :> 4) @@ (<<0, 1, 1, 0>> :> 15))

\* S9: a demand of 3 with users of 2 and 5 activities.  get_costs_idx(3) is
\* the list reduced by 2 activities, where the two users of 2 activities
\* (costs 10 and 11, reduced 5 and 5.5) precede the user of 5 (cost 12,
\* reduced 6), whose cost for a demand of 3 is 12 / 3 = 4.
InstanceS9 ==
    input_problem(2, 2, 2, <<2, 5>>, <<0, 3>>,
        (<<0, 0, 0>> :> 1) @@ (<<0, 0, 1>> :> 1) @@ (<<0, 1, 0>> :> 1),
        (<<0, 1, 0, 0>> :> 10) @@ (<<0, 1, 0, 1>> :> 11) @@ (<<0, 1, 1, 0>> :> 12))

\* S10: seven users of one activity, one per time step, at costs 1, 11, ..,
\* 61, for a demand of 7: every bucket is used up, so every candidate
\* try_improve adds needs a nested call to free its bucket.
InstanceS10 ==
    input_problem(2, 1, 7, <<1>>, <<0, 7>>,
        [b \in {<<0, 0, t>> : t \in 0 .. 6} |-> 1],
        [x \in {<<0, 1, 0, t>> : t \in 0 .. 6} |-> 10 * x[4] + 1])

\* S11: a demand of 1 and 23 users of one activity, one per time step: the
\* one at cost 1 and 22 more at costs 2 to 5, none of which improves on it.
InstanceS11 ==
    input_problem(2, 1, 23, <<1>>, <<0, 1>>,
        [b \in {<<0, 0, t>> : t \in 0 .. 22} |-> 1],
        [x \in {<<0, 1, 0, t>> : t \in 0 .. 22} |->
            IF x[4] = 0 THEN 1 ELSE 2 + ((x[4] - 1) \div 6)])

\* S12: a user of 2 activities and one of 3 for demands of 1 and 3.  No sum
\* of 2s and 3s is 1.  Visiting cell 1 first, the standard greedy gives it the
\* user of 3 activities and cannot serve cell 2.
InstanceS12 ==
    input_problem(3, 2, 1, <<2, 3>>, <<0, 1, 3>>,
        (<<0, 0, 0>> :> 1) @@ (<<0, 1, 0>> :> 1),
        (<<0, 1, 0, 0>> :> 5) @@ (<<0, 1, 1, 0>> :> 3) @@
        (<<0, 2, 0, 0>> :> 4) @@ (<<0, 2, 1, 0>> :> 9))

\* S13: two users of 2 activities in one bucket for a demand of 3: the
\* cell takes one of them, then the other for the activity left.
InstanceS13 ==
    input_problem(2, 1, 1, <<2>>, <<0, 3>>,
        (<<0, 0, 0>> :> 2),
        (<<0, 1, 0, 0>> :> 5))

\* Instances explored with a single worker, and with up to MaxThreads workers.
SingleInstances ==
    {InstanceS1, InstanceS3, InstanceS5, InstanceS6, InstanceS7, InstanceS8,
     InstanceS9, InstanceS12, InstanceS13}

SharedInstances == {InstanceS2, InstanceS4}

Configurations ==
    {<<p, 1>> : p \in SingleInstances \cup SharedInstances}
    \cup {<<p, n>> : p \in SharedInstances, n \in 2 .. MaxThreads}

Workers == 0 .. (nthreads - 1)

ZeroSolution == [x \in four_dimensions |-> 0]

\* ------------------------------------------------------------ cells_order

\* A comparison of the costs as they are, not reduced: a fault the order of the
\* lists has to reveal.
cmp_costs_raw(max_done, lhs, rhs) == problem.costs[lhs] < problem.costs[rhs]

\* cmp_costs_asc(costs, act_per_user, max_done)(lhs, rhs)
cmp_costs_asc(max_done, lhs, rhs) ==
    problem.costs[lhs] * Min(problem.act_per_user[rhs[3]], max_done)
        < problem.costs[rhs] * Min(problem.act_per_user[lhs[3]], max_done)

\* cmp_costs_desc(costs)(lhs, rhs)
cmp_costs_desc(lhs, rhs) == problem.costs[lhs] > problem.costs[rhs]

\* The sequence std::sort by cmp_costs_desc may leave.
sort_costs_desc(s) ==
    std_sort(s, {<<x, y>> \in Range(s) \X Range(s) : cmp_costs_desc(x, y)})

\* A search that starts over from the head of the list: a fault the forward
\* movement of the iterator has to reveal.
get_least_expensive_restart(list, begin, users_available) ==
    LET S == {k \in 1 .. Len(list) : users_available[convert_index(list[k])] > 0}
    IN  IF S = {} THEN Len(list) + 1 ELSE CHOOSE k \in S : \A l \in S : k <= l

\* A search that returns the position it is given, whatever the users left
\* in its bucket: a fault the supply a commit relies on has to reveal.
get_least_expensive_any(list, begin, users_available) == begin

\* cells_order::get_least_expensive: the first position at or after `begin`
\* whose bucket has users left, Len + 1 when there is none.
RECURSIVE get_least_expensive(_, _, _)
get_least_expensive(list, begin, users_available) ==
    IF begin <= Len(list) /\ users_available[convert_index(list[begin])] <= 0
    THEN get_least_expensive(list, begin + 1, users_available)
    ELSE begin

\* An index that is always that of the first list: a fault the choice of
\* the list by the demand has to reveal.
costs_idx_first(demand) == 0

\* global_statistics::get_costs_idx
RECURSIVE costs_idx_from(_, _)
costs_idx_from(m, demand) ==
    IF statistics.act_per_user_sorted[m] > demand /\ m < problem.n_cust_types - 1
    THEN costs_idx_from(m + 1, demand)
    ELSE m

get_costs_idx(demand) == costs_idx_from(0, demand)

\* ------------------------------------------------------ initialization_phase

\* fill_cells_order without the test of line 409: a fault the ban on the
\* source cell has to reveal.
pushed_indexes_all(j) ==
    {x \in four_dimensions : x[2] = j /\ problem.users_available[convert_index(x)] > 0}

\* The indexes fill_cells_order pushes for cell j, in the order of its loops
\* (i, then m, then t); the sort makes that order immaterial.
pushed_indexes(j) ==
    {<<i, j, m, t>> : i \in Cells \ {j}, m \in Types, t \in Times}
        \cap {x \in four_dimensions : problem.users_available[convert_index(x)] > 0}

\* act_per_user sorted in not-increasing order
RECURSIVE sorted_desc(_, _)
sorted_desc(f, D) ==
    IF D = {} THEN <<>>
    ELSE LET m == CHOOSE x \in D : \A y \in D : f[y] <= f[x]
         IN  <<f[m]>> \o sorted_desc(f, D \ {m})

act_per_user_sorted_of(p) ==
    LET s == sorted_desc(p.act_per_user, DOMAIN p.act_per_user)
    IN  [m \in DOMAIN p.act_per_user |-> s[m + 1]]

RECURSIVE MaxOf(_, _)
MaxOf(f, D) ==
    IF D = {} THEN 0
    ELSE LET x == CHOOSE y \in D : TRUE IN Max(f[x], MaxOf(f, D \ {x}))

\* Every content fill_cells_order(index) may leave in costs_order[index][j].
fill_cells_order(index, j) ==
    IF problem.activities[j] = 0 THEN {<<>>}
    ELSE LET S == pushed_indexes(j)
             max_done == act_per_user_sorted_of(problem)[index]
             any == CHOOSE s \in [1 .. Cardinality(S) -> S] : Range(s) = S
         IN  std_sort(any, {<<x, y>> \in S \X S : cmp_costs_asc(max_done, x, y)})

\* ------------------------------------------------------------ cells_usage

\* A tracker that never prefers the candidate less used: a fault the
\* tie-break has to reveal.
should_replace_never(usage, new_idx, old_idx) == FALSE

\* cells_usage::should_replace: usage[new_idx] < usage[old_idx], where
\* usage[x] is (users added so far) / users_available[x].
should_replace(usage, new_idx, old_idx) ==
    LET den(x) == IF problem.users_available[x] = 0 THEN 1
                  ELSE problem.users_available[x]
    IN  usage[new_idx] * den(old_idx) < usage[old_idx] * den(new_idx)

\* A tracker that keeps the users of the last commit only: a fault the
\* accumulation over the greedy runs has to reveal.
usage_set(usage, idx, nusers) == [usage EXCEPT ![idx] = nusers]

\* cells_usage::add: the model keeps the numerator.
usage_add(usage, idx, nusers) == [usage EXCEPT ![idx] = @ + nusers]

\* -------------------------------------------------------- activities_slots

\* activities_slots::activities_slots: data[a][m] for a in 0..max_activities
\* and m in 0..n_cust_types, the last column (gen_idx) being the sentinel.
\* Row 0 is filled with true; in row a the loop over m sets data[a][m] from
\* the sentinel of row a - act_per_user[m] and ors it into data[a][gen_idx].
\* A table whose entries start true in every row, not only in row 0: a fault
\* the consistency of the table has to reveal.
slots_cell_filled(a, m, act_per_user, data) ==
    IF a - act_per_user[m] >= 0
    THEN data[a - act_per_user[m]][Cardinality(DOMAIN act_per_user)]
    ELSE TRUE

\* A table that reads the column of the type, not the sentinel, in the row
\* it refers to: a fault the meaning of the table has to reveal.
slots_cell_own(a, m, act_per_user, data) ==
    IF a - act_per_user[m] >= 0
    THEN data[a - act_per_user[m]][m]
    ELSE (a = 0)

\* Lines 55-59: data[a][m] once the loop has passed m; an entry the loop does
\* not assign keeps the value of the fill (true in row 0, false elsewhere).
slots_cell(a, m, act_per_user, data) ==
    IF a - act_per_user[m] >= 0
    THEN data[a - act_per_user[m]][Cardinality(DOMAIN act_per_user)]
    ELSE (a = 0)

RECURSIVE slots_rows(_, _, _, _)
slots_rows(a, max_activities, act_per_user, data) ==
    IF a > max_activities THEN data
    ELSE LET M == DOMAIN act_per_user
             gen_idx == Cardinality(M)
             cell(m) == slots_cell(a, m, act_per_user, data)
             row == [m \in M \cup {gen_idx} |->
                        IF m = gen_idx
                        THEN (a = 0) \/ (\E k \in M : a - act_per_user[k] >= 0 /\ cell(k))
                        ELSE cell(m)]
         IN  slots_rows(a + 1, max_activities, act_per_user, data @@ (a :> row))

activities_slots(max_activities, act_per_user) ==
    slots_rows(0, max_activities, act_per_user, <<>>)

\* activities_slots::should_skip
should_skip(demand) ==
    ~statistics.act_slots.data[demand][problem.n_cust_types]

\* A table that lets every type be selected: a fault the pass of
\* greedy_few_users that wastes nothing has to reveal.
can_be_selected_any(demand, m) == TRUE

\* activities_slots::can_be_selected
can_be_selected(demand, m) ==
    demand >= 0 /\ statistics.act_slots.data[demand][m]

\* ------------------------------------------------------------------ timer

TimerNames == {"normal_timer", "fewusers_timer"}

\* A timer before its constructor runs.
NoTimer ==
    [ pc |-> "none", end |-> FALSE, stopped |-> FALSE, callbacks |-> 0,
      timed_out |-> FALSE, joins |-> 0 ]

\* A callback that sets both flags: a fault the ownership of the flags has to
\* reveal.
callback_both(name) ==
    time_finished' = TRUE /\ fewusers_time_finished' = TRUE

\* The callback solve() gives each timer.
callback(name) ==
    IF name = "normal_timer"
    THEN time_finished' = TRUE /\ UNCHANGED fewusers_time_finished
    ELSE fewusers_time_finished' = TRUE /\ UNCHANGED time_finished

\* timer::timer_function, the wait_for timing out: the duration has elapsed.
TimerExpire(name) ==
    /\ timers[name].pc = "waiting"
    /\ ~timers[name].end
    /\ timers' = [timers EXCEPT ![name] =
            [@ EXCEPT !.pc = "finished", !.end = TRUE, !.callbacks = @ + 1, !.timed_out = TRUE]]
    /\ callback(name)
    /\ UNCHANGED <<problem, statistics, nthreads, sv, param, th>>

\* timer::timer_function, the wait_for returning because stop() set `end`.
TimerWake(name) ==
    /\ timers[name].pc = "waiting"
    /\ timers[name].end
    /\ timers' = [timers EXCEPT ![name] =
            [@ EXCEPT !.pc = "finished", !.end = TRUE, !.callbacks = @ + 1]]
    /\ callback(name)
    /\ UNCHANGED <<problem, statistics, nthreads, sv, param, th>>

\* ------------------------------------------------------------ thread_body

\* The locals of a worker that has not been fired yet.
Unstarted ==
    [ pc |-> "unstarted",
      users_available |-> <<>>, current_solution |-> <<>>, best_solution |-> <<>>,
      usage |-> <<>>, order |-> <<>>,
      few_users_mode |-> FALSE, current_time_finished |-> "time_finished",
      best_objfun |-> Infinity, iterations |-> 0, current_objfun |-> 0, gain |-> 0,
      obj_function |-> 0, pos |-> 0, demand |-> 0, inserted_indexes |-> <<>>,
      enable_wasting |-> FALSE, remaining_demand |-> <<>>,
      sm |-> <<>>, improvement |-> 0, a |-> 0, m |-> 0, stack |-> <<>>, ret |-> <<>>,
      runs |-> 0, calls |-> 0, chains |-> 0 ]

\* th_parameter::th_parameter
th_parameter == [solution |-> ZeroSolution, obj_function |-> Infinity, iterations |-> 0]

\* The cells thread_body puts in `order`: those with activities, ascending.
RECURSIVE cells_to_visit(_)
cells_to_visit(j) ==
    IF j >= problem.n_cells THEN <<>>
    ELSE (IF problem.activities[j] > 0 THEN <<j>> ELSE <<>>) \o cells_to_visit(j + 1)

\* thread_body lines 105-124: the locals at the first loop head.
thread_locals ==
    [Unstarted EXCEPT
        !.pc = "outer",
        !.users_available = [x \in three_dimensions |-> 0],
        !.current_solution = ZeroSolution,
        !.best_solution = ZeroSolution,
        !.usage = [x \in three_dimensions |-> 0],
        !.order = cells_to_visit(0)]

\* A flag that is never seen true: a fault the cancellation has to reveal.
current_flag_never(s) == FALSE

\* *current_time_finished
current_flag(s) ==
    IF s.current_time_finished = "time_finished" THEN time_finished
    ELSE fewusers_time_finished

SetTh(w, s) == th' = [th EXCEPT ![w] = s]

OnlyTh == UNCHANGED <<problem, statistics, nthreads, time_finished,
                      fewusers_time_finished, timers, sv, param>>

\* Line 125 never leaving the loop: a fault the termination has to reveal.
OuterForever(w) ==
    /\ th[w].pc = "outer"
    /\ SetTh(w, [th[w] EXCEPT !.pc = "inner", !.best_objfun = Infinity, !.iterations = 0])
    /\ OnlyTh

\* Line 125: the outer loop head.
Outer(w) ==
    LET s == th[w] IN
    /\ s.pc = "outer"
    /\ IF current_flag(s)
       THEN SetTh(w, [s EXCEPT !.pc = "done"])
       ELSE SetTh(w, [s EXCEPT !.pc = "inner", !.best_objfun = Infinity, !.iterations = 0])
    /\ OnlyTh

\* Line 130: the inner loop head; lines 133-137 up to the entry of the greedy
\* function, whose first lines reset the solution and the users available.
\* When the loop ends, lines 157-161.
Inner(w) ==
    LET s == th[w] IN
    /\ s.pc = "inner"
    /\ IF ~current_flag(s) /\ s.iterations < iteration_limit
       THEN /\ SumOver([v \in Workers |-> th[v].runs], Workers)
                < (IF nthreads = 1 THEN MaxIterations ELSE MaxSharedIterations)
            /\ \E order \in std_shuffle(s.order) :
                 SetTh(w, [s EXCEPT
                    !.pc = IF s.few_users_mode THEN "few_cell" ELSE "greedy_cell",
                    !.order = order,
                    !.current_solution = ZeroSolution,
                    !.users_available = problem.users_available,
                    !.obj_function = 0, !.pos = 1, !.demand = 0,
                    !.inserted_indexes = <<>>,
                    !.enable_wasting = FALSE,
                    !.remaining_demand = [b \in DOMAIN order |-> problem.activities[order[b]]],
                    !.runs = @ + 1])
            /\ UNCHANGED param
       ELSE /\ SetTh(w, [s EXCEPT
                    !.pc = IF s.best_objfun # Infinity THEN "improve" ELSE "update",
                    !.gain = -1])
            /\ param' = [param EXCEPT ![w].iterations = @ + s.iterations]
    /\ UNCHANGED <<problem, statistics, nthreads, time_finished,
                   fewusers_time_finished, timers, sv>>

\* ----------------------------------------------------------------- greedy

NoUser == [found |-> FALSE, num |-> 0, den |-> 1, i |-> 0, m |-> 0, t |-> 0]

\* greedy lines 205-225: the scan of costs_order[co_idx][j] from co_it on;
\* min_cost is min.num / min.den, +infinity while nothing is found.
RECURSIVE greedy_scan(_, _, _, _, _, _)
greedy_scan(list, co_it, demand, users_available, usage, min) ==
    LET it == get_least_expensive(list, co_it, users_available) IN
    IF it > Len(list) THEN min
    ELSE LET idx == list[it]
             i == idx[1]
             m == idx[3]
             t == idx[4]
             num == problem.costs[idx]
             den == Min(demand, problem.act_per_user[m])
             greater == min.found /\ num * min.den > min.num * den
             less == ~min.found \/ num * min.den < min.num * den
         IN  IF greater THEN min
             ELSE IF less \/ should_replace(usage, <<i, m, t>>, <<min.i, min.m, min.t>>)
                  THEN greedy_scan(list, it + 1, demand, users_available, usage,
                           [found |-> TRUE, num |-> num, den |-> den, i |-> i, m |-> m, t |-> t])
                  ELSE greedy_scan(list, it + 1, demand, users_available, usage, min)

\* A scan that leaves out the head of the list: a fault the start of every
\* selection step at begin() has to reveal.
greedy_select_resume(j, demand, users_available, usage) ==
    greedy_scan(statistics.costs_order[get_costs_idx(demand)][j], 2, demand,
                users_available, usage, NoUser)

\* greedy lines 200-225: the user selected for cell j.
greedy_select(j, demand, users_available, usage) ==
    greedy_scan(statistics.costs_order[get_costs_idx(demand)][j], 1, demand,
                users_available, usage, NoUser)

\* greedy lines 233-236 without the bound of the users available: a fault
\* the supply constraint has to reveal.
greedy_nusers_uncapped(demand, min, users_available) ==
    Max(1, demand \div problem.act_per_user[min.m])

\* greedy lines 233-236
greedy_nusers(demand, min, users_available) ==
    LET n == Min(demand \div problem.act_per_user[min.m],
                 users_available[<<min.i, min.m, min.t>>])
    IN  IF n = 0 THEN 1 ELSE n

\* greedy without lines 260-274, no user in excess being removed: a fault
\* the rebalance has to reveal.
greedy_remove_none(sorted, k, demand, r) == r

\* greedy lines 260-274 removing a user whatever its activities: a fault the
\* demand constraint has to reveal.
greedy_remove_any(sorted, k, demand, r) ==
    IF demand > 0 /\ k <= Len(sorted)
    THEN [ solution |-> [r.solution EXCEPT ![sorted[k]] = @ - 1],
           obj_function |-> r.obj_function - problem.costs[sorted[k]],
           users_available |->
               [r.users_available EXCEPT ![convert_index(sorted[k])] = @ + 1] ]
    ELSE r

\* greedy lines 260-274: the walk over the sorted inserted indexes, from
\* position k with `demand` activities in excess.
RECURSIVE greedy_remove(_, _, _, _)
greedy_remove(sorted, k, demand, r) ==
    IF demand > 0 /\ k <= Len(sorted)
    THEN LET idx == sorted[k] IN
         IF problem.act_per_user[idx[3]] <= demand
         THEN greedy_remove(sorted,
                  IF r.solution[idx] - 1 = 0 THEN k + 1 ELSE k,
                  demand - problem.act_per_user[idx[3]],
                  [ solution |-> [r.solution EXCEPT ![idx] = @ - 1],
                    obj_function |-> r.obj_function - problem.costs[idx],
                    users_available |->
                        [r.users_available EXCEPT ![convert_index(idx)] = @ + 1] ])
         ELSE greedy_remove(sorted, k + 1, demand, r)
    ELSE r

\* Line 188: the loop over the cells, and line 278 when it ends.
GreedyCell(w) ==
    LET s == th[w] IN
    /\ s.pc = "greedy_cell"
    /\ IF s.pos > Len(s.order)
       THEN SetTh(w, [s EXCEPT !.pc = "after_greedy", !.current_objfun = s.obj_function])
       ELSE SetTh(w, [s EXCEPT !.pc = "greedy_select",
                               !.demand = problem.activities[s.order[s.pos]],
                               !.inserted_indexes = <<>>])
    /\ OnlyTh

\* Lines 195-246: one selection step for the current cell.
GreedySelect(w) ==
    LET s == th[w]
        j == s.order[s.pos]
    IN
    /\ s.pc = "greedy_select"
    /\ s.demand > 0
    /\ \E min \in {greedy_select(j, s.demand, s.users_available, s.usage)} :
         LET nusers == greedy_nusers(s.demand, min, s.users_available)
             idx == <<min.i, j, min.m, min.t>>
             b == <<min.i, min.m, min.t>>
         IN  IF ~min.found
             THEN SetTh(w, [s EXCEPT !.pc = "after_greedy", !.current_objfun = Infinity])
             ELSE SetTh(w, [s EXCEPT
                      !.current_solution = [@ EXCEPT ![idx] = @ + nusers],
                      !.obj_function = @ + problem.costs[idx] * nusers,
                      !.demand = @ - problem.act_per_user[min.m] * nusers,
                      !.users_available = [@ EXCEPT ![b] = @ - nusers],
                      !.inserted_indexes = Append(@, idx),
                      !.usage = usage_add(@, b, nusers)])
    /\ OnlyTh

\* Lines 252-275: the demand of the cell is met; remove what is in excess.
GreedyRebalance(w) ==
    LET s == th[w] IN
    /\ s.pc = "greedy_select"
    /\ s.demand <= 0
    /\ \E sorted \in (IF s.demand < 0 THEN sort_costs_desc(s.inserted_indexes)
                      ELSE {s.inserted_indexes}) :
         LET r == greedy_remove(sorted, 1, 0 - s.demand,
                     [ solution |-> s.current_solution,
                       obj_function |-> s.obj_function,
                       users_available |-> s.users_available ])
         IN  SetTh(w, [s EXCEPT !.pc = "greedy_cell", !.pos = @ + 1,
                                !.inserted_indexes = sorted,
                                !.current_solution = r.solution,
                                !.obj_function = r.obj_function,
                                !.users_available = r.users_available])
    /\ OnlyTh

\* ------------------------------------------------------- greedy_few_users

\* greedy_few_users lines 322-344
RECURSIVE few_scan(_, _, _, _, _, _)
few_scan(list, co_it, demand, users_available, enable_wasting, min) ==
    LET it == get_least_expensive(list, co_it, users_available) IN
    IF it > Len(list) THEN min
    ELSE LET idx == list[it]
             m == idx[3]
             num == problem.costs[idx]
             den == Min(demand, problem.act_per_user[m])
             greater == min.found /\ num * min.den > min.num * den
             less == ~min.found \/ num * min.den < min.num * den
         IN  IF greater THEN min
             ELSE IF (enable_wasting \/ can_be_selected(demand, m))
                      /\ (less \/ problem.act_per_user[m] > problem.act_per_user[min.m])
                  THEN few_scan(list, it + 1, demand, users_available, enable_wasting,
                           [found |-> TRUE, num |-> num, den |-> den,
                            i |-> idx[1], m |-> m, t |-> idx[4]])
                  ELSE few_scan(list, it + 1, demand, users_available, enable_wasting, min)

few_select(j, demand, users_available, enable_wasting) ==
    few_scan(statistics.costs_order[get_costs_idx(demand)][j], 1, demand,
             users_available, enable_wasting, NoUser)

\* Lines 299-309: the two passes and the loop over the cells; line 370 at
\* the end of the second pass.
FewCell(w) ==
    LET s == th[w] IN
    /\ s.pc = "few_cell"
    /\ IF statistics.act_slots.null
       THEN SetTh(w, [s EXCEPT !.pc = "null_dereference"])
       ELSE IF s.pos > Len(s.order)
       THEN IF s.enable_wasting
            THEN SetTh(w, [s EXCEPT !.pc = "after_greedy", !.current_objfun = s.obj_function])
            ELSE SetTh(w, [s EXCEPT !.enable_wasting = TRUE, !.pos = 1])
       ELSE IF ~s.enable_wasting /\ should_skip(s.remaining_demand[s.pos])
       THEN SetTh(w, [s EXCEPT !.pos = @ + 1])
       ELSE SetTh(w, [s EXCEPT !.pc = "few_select", !.demand = s.remaining_demand[s.pos]])
    /\ OnlyTh

\* Lines 312-365: one selection step for the current cell, or the end of its loop.
FewSelect(w) ==
    LET s == th[w]
        j == s.order[s.pos]
        leave == [s EXCEPT !.pc = "few_cell", !.pos = @ + 1,
                           !.remaining_demand = [@ EXCEPT ![s.pos] = s.demand]]
    IN
    /\ s.pc = "few_select"
    /\ IF s.demand <= 0 THEN SetTh(w, leave)
       ELSE \E min \in {few_select(j, s.demand, s.users_available, s.enable_wasting)} :
            LET idx == <<min.i, j, min.m, min.t>> IN
            IF ~min.found
            THEN IF s.enable_wasting
                 THEN SetTh(w, [s EXCEPT !.pc = "after_greedy", !.current_objfun = Infinity])
                 ELSE SetTh(w, leave)
            ELSE SetTh(w, [s EXCEPT
                     !.current_solution = [@ EXCEPT ![idx] = @ + 1],
                     !.obj_function = @ + problem.costs[idx],
                     !.demand = @ - problem.act_per_user[min.m],
                     !.users_available = [@ EXCEPT ![convert_index(idx)] = @ - 1]])
    /\ OnlyTh

\* ------------------------------------------- thread_body, after the greedy

\* Lines 137-145: keep the better solution, count the iteration, detect the
\* 'few users' case.
AfterGreedy(w) ==
    LET s == th[w]
        better == s.current_objfun < s.best_objfun
        kept == [s EXCEPT
                    !.best_objfun = IF better THEN s.current_objfun ELSE @,
                    !.best_solution = IF better THEN s.current_solution ELSE @,
                    !.iterations = @ + 1]
    IN
    /\ s.pc = "after_greedy"
    /\ IF s.current_objfun = Infinity /\ ~s.few_users_mode
       THEN SetTh(w, [kept EXCEPT !.pc = "check_slots"])
       ELSE SetTh(w, [kept EXCEPT !.pc = "inner"])
    /\ OnlyTh

\* Lines 152-154 without the assignment of line 153: a fault the flag polled
\* in the 'few users' mode has to reveal.
few_users_same_flag(s) == [s EXCEPT !.pc = "inner", !.few_users_mode = TRUE]

\* Lines 152-154
few_users(s) ==
    [s EXCEPT !.pc = "inner", !.few_users_mode = TRUE,
              !.current_time_finished = "fewusers_time_finished"]

\* Line 147: the test of statistics.act_slots.
CheckSlots(w) ==
    LET s == th[w] IN
    /\ s.pc = "check_slots"
    /\ IF statistics.act_slots.null
       THEN SetTh(w, [s EXCEPT !.pc = "new_slots"])
       ELSE SetTh(w, few_users(s))
    /\ OnlyTh

\* Line 148 building the table without storing its pointer: a fault the
\* first run of greedy_few_users has to reveal.
NewSlotsLost(w) ==
    /\ th[w].pc = "new_slots"
    /\ SetTh(w, few_users(th[w]))
    /\ OnlyTh

\* Line 148: the table is built and its pointer stored.
NewSlots(w) ==
    LET s == th[w] IN
    /\ s.pc = "new_slots"
    /\ statistics' = [statistics EXCEPT
            !.act_slots = [ null |-> FALSE,
                            data |-> activities_slots(statistics.max_activities,
                                                      problem.act_per_user),
                            built |-> @.built + 1 ]]
    /\ SetTh(w, few_users(s))
    /\ UNCHANGED <<problem, nthreads, time_finished, fewusers_time_finished,
                   timers, sv, param>>

\* --------------------------------------------------------- improving_setup

\* The 4-indexes of S in the order of the loops i, j, m, t.
RECURSIVE in_loop_order(_)
in_loop_order(S) ==
    IF S = {} THEN <<>>
    ELSE LET lt(x, y) ==
                 \E k \in 1 .. 4 : x[k] < y[k] /\ \A l \in 1 .. (k - 1) : x[l] = y[l]
             first == CHOOSE x \in S : \A y \in S \ {x} : lt(x, y)
         IN  <<first>> \o in_loop_order(S \ {first})

\* improving_setup without line 467, the users moved being left in the
\* users available: a fault the supply the setup computes has to reveal.
improving_setup_unreduced(solution) ==
    LET moved == {x \in four_dimensions : x[1] # x[2] /\ solution[x] # 0} IN
    [ users_available |-> problem.users_available,
      moves |-> in_loop_order(moved),
      moves_from_i |-> [i \in Cells |-> in_loop_order({x \in moved : x[1] = i})],
      moves_to_j |-> [j \in Cells |-> in_loop_order({x \in moved : x[2] = j})],
      done_in_j |->
          [j \in Cells |->
              SumOver([x \in moved |-> solution[x] * problem.act_per_user[x[3]]],
                      {x \in moved : x[2] = j})] ]

\* coiote_solver::improving_setup
improving_setup(solution) ==
    LET moved == {x \in four_dimensions : x[1] # x[2] /\ solution[x] # 0} IN
    [ users_available |->
          [b \in three_dimensions |->
              problem.users_available[b]
                  - SumOver(solution, {x \in moved : convert_index(x) = b})],
      moves |-> in_loop_order(moved),
      moves_from_i |-> [i \in Cells |-> in_loop_order({x \in moved : x[1] = i})],
      moves_to_j |-> [j \in Cells |-> in_loop_order({x \in moved : x[2] = j})],
      done_in_j |->
          [j \in Cells |->
              SumOver([x \in moved |-> solution[x] * problem.act_per_user[x[3]]],
                      {x \in moved : x[2] = j})] ]

\* ----------------------------------------------------------- try_improve

\* A move whose gain is recorded one unit above the cost of the users it
\* removes: a fault the value of the gain has to reveal.
improved_move_overstated(i, j, m, t, user_added, activities_added, obj_gain) ==
    [ t_idx |-> <<i, m, t>>, f_idx |-> <<i, j, m, t>>, user_added |-> user_added,
      activities_added |-> activities_added,
      obj_gain |-> IF obj_gain > 0 THEN obj_gain + 1 ELSE obj_gain ]

\* improved_move::improved_move
improved_move(i, j, m, t, user_added, activities_added, obj_gain) ==
    [ t_idx |-> <<i, m, t>>, f_idx |-> <<i, j, m, t>>, user_added |-> user_added,
      activities_added |-> activities_added, obj_gain |-> obj_gain ]

\* What try_improve works on: the solution, statistics_moves.users_available,
\* statistics_moves.done_in_j, and param.obj_gain_so_far in `gain`; `log`
\* lists the calls of add_remove_user of the step, in the order they are made.
work_of(s, gain) ==
    [ solution |-> s.best_solution, users_available |-> s.sm.users_available,
      done_in_j |-> s.sm.done_in_j, gain |-> gain, log |-> <<>> ]

\* coiote_solver::add_remove_user, its return value added to `gain`.
add_remove_user(ic, st, undo) ==
    LET flag == IF undo THEN -1 ELSE 1 IN
    [ solution |-> [st.solution EXCEPT ![ic.f_idx] = @ + ic.user_added * flag],
      users_available |-> [st.users_available EXCEPT ![ic.t_idx] = @ - ic.user_added * flag],
      done_in_j |-> [st.done_in_j EXCEPT ![ic.f_idx[2]] = @ + ic.activities_added * flag],
      gain |-> st.gain + ic.obj_gain * flag,
      log |-> Append(st.log, [f_idx |-> ic.f_idx, user_added |-> ic.user_added,
                              undo |-> undo]) ]

\* try_improve lines 560-563 and 589-592 undoing the moves from prev_imp_size
\* upwards: a fault the order of the undo has to reveal.
RECURSIVE undo_back_forward(_, _, _)
undo_back_forward(moves, prev_imp_size, st) ==
    IF Len(moves) > prev_imp_size
    THEN undo_back_forward(moves, prev_imp_size + 1,
                           add_remove_user(moves[prev_imp_size + 1], st, TRUE))
    ELSE st

\* try_improve lines 560-563 and 589-592: undo moves[a] for a from the last
\* one down to prev_imp_size.
RECURSIVE undo_back(_, _, _)
undo_back(moves, prev_imp_size, st) ==
    IF Len(moves) > prev_imp_size
    THEN undo_back(SubSeq(moves, 1, Len(moves) - 1), prev_imp_size,
                   add_remove_user(moves[Len(moves)], st, TRUE))
    ELSE st

\* try_improve lines 596-598 leaving the first move in place: a fault the
\* restoration has to reveal.
undo_all_but_first(moves, a, st) ==
    undo_back(moves, 1, st)

\* try_improve lines 596-598: undo every move, from the first one on.
RECURSIVE undo_all(_, _, _)
undo_all(moves, a, st) ==
    IF a <= Len(moves)
    THEN undo_all(moves, a + 1, add_remove_user(moves[a], st, TRUE))
    ELSE st

\* get_removable lines 631-643 removing the first user whatever the
\* redundancy: a fault the demand constraint has to reveal.
removable_walk_any(list, k, redundancy, r) ==
    IF k <= Len(list) /\ r.st.solution[list[k]] > 0
    THEN [ st |-> [ solution |-> [r.st.solution EXCEPT ![list[k]] = @ - 1],
                    users_available |->
                        [r.st.users_available EXCEPT ![convert_index(list[k])] = @ + 1],
                    done_in_j |->
                        [r.st.done_in_j EXCEPT
                            ![list[k][2]] = @ - problem.act_per_user[list[k][3]]],
                    gain |-> r.st.gain + problem.costs[list[k]],
                    log |-> r.st.log ],
           moves |-> r.moves ]
    ELSE r

\* get_removable lines 631-643: the walk over the sorted moves to cell j;
\* r holds the work state and the list of moves.
RECURSIVE removable_walk(_, _, _, _)
removable_walk(list, k, redundancy, r) ==
    IF redundancy > 0 /\ k <= Len(list)
    THEN LET idx == list[k]
             apu == problem.act_per_user[idx[3]]
         IN  IF apu <= redundancy /\ r.st.solution[idx] > 0
             THEN LET ic == improved_move(idx[1], idx[2], idx[3], idx[4],
                                          -1, 0 - apu, problem.costs[idx])
                  IN  removable_walk(list, k, redundancy - apu,
                          [ st |-> add_remove_user(ic, r.st, FALSE),
                            moves |-> Append(r.moves, ic) ])
             ELSE removable_walk(list, k + 1, redundancy, r)
    ELSE r

\* get_removable without the push_back of line 638: a fault the record of
\* the removals has to reveal.
get_removable_unrecorded(j, sorted, st, moves) ==
    [ st |-> removable_walk(sorted, 1, st.done_in_j[j] - problem.activities[j],
                            [st |-> st, moves |-> moves]).st,
      moves |-> moves ]

\* coiote_solver::get_removable, given the order its sort left moves_to_j[j] in.
get_removable(j, sorted, st, moves) ==
    removable_walk(sorted, 1, st.done_in_j[j] - problem.activities[j],
                   [st |-> st, moves |-> moves])

\* ti_parameter::ti_parameter, both constructors, as the frame of the call;
\* `entry` keeps what the call found, for the properties.
ti_frame(it_level, idx, users_to_remove, obj_gain_so_far, considered_cells, s) ==
    [ pc |-> "enter", it_level |-> it_level, curr_idx |-> idx,
      users_to_remove |-> users_to_remove, obj_gain_so_far |-> obj_gain_so_far,
      considered_cells |-> considered_cells,
      moves |-> <<>>, act_removed |-> 0, co_idx |-> 0, co_it |-> 1, count |-> 0,
      new_idx |-> idx, prev_imp_size |-> 0, users_available |-> 0, a |-> 0,
      adds |-> 0, log |-> <<>>,
      entry |-> [ solution |-> s.best_solution,
                  users_available |-> s.sm.users_available,
                  done_in_j |-> s.sm.done_in_j,
                  obj_gain_so_far |-> obj_gain_so_far,
                  considered_cells |-> considered_cells ] ]

Top(s) == s.stack[Len(s.stack)]

Pop(s) == SubSeq(s.stack, 1, Len(s.stack) - 1)

SetTop(s, f) == [s.stack EXCEPT ![Len(s.stack)] = f]

\* A call returns: its frame is popped and `ret` holds what the caller sees.
ti_return(s, f, ok, st, imp_moves) ==
    [s EXCEPT
        !.pc = "ti_return",
        !.stack = Pop(s),
        !.best_solution = st.solution,
        !.sm = [@ EXCEPT !.users_available = st.users_available,
                         !.done_in_j = st.done_in_j],
        !.ret = [ ok |-> ok, imp_moves |-> imp_moves,
                  it_level |-> f.it_level,
                  adds |-> f.adds,
                  curr_idx |-> f.curr_idx,
                  log |-> st.log,
                  obj_gain_so_far |-> st.gain,
                  considered_cells |-> f.considered_cells,
                  undone |-> f.moves,
                  entry |-> f.entry ]]

\* Lines 595-601 without the pop_back of line 600: a fault the tabu list has
\* to reveal.
ti_fail_no_pop(s, f, st) ==
    ti_return(s, f, FALSE, undo_all(f.moves, 1, st), <<>>)

\* Lines 595-601: every change of this call is undone and it returns false.
ti_fail(s, f, st) ==
    ti_return(s,
              [f EXCEPT !.considered_cells = SubSeq(@, 1, Len(@) - 1)],
              FALSE, undo_all(f.moves, 1, st), <<>>)

\* The work state back in the locals of the worker, with the frame on top.
ti_continue(s, f, st) ==
    [s EXCEPT
        !.stack = SetTop(s, [f EXCEPT !.obj_gain_so_far = st.gain, !.log = st.log]),
        !.best_solution = st.solution,
        !.sm = [@ EXCEPT !.users_available = st.users_available,
                         !.done_in_j = st.done_in_j]]

\* Line 495 with no limit on the level: a fault the bound of the recursion
\* has to reveal.
max_level_never(it_level) == FALSE

\* Line 495: param.it_level > max_level
max_level_passed(it_level) == it_level > max_level

\* Lines 488-512: the guard, the tabu list, the removal of the users.
TiEnter(w) ==
    LET s == th[w]
        f == Top(s)
        idx == f.curr_idx
        abort == \/ s.best_solution[idx] < f.users_to_remove
                 \/ max_level_passed(f.it_level)
                 \/ idx \in Range(f.considered_cells)
        curr_gain == f.users_to_remove * problem.costs[idx]
        act_removed == problem.act_per_user[idx[3]] * f.users_to_remove
        current_ic == improved_move(idx[1], idx[2], idx[3], idx[4],
                                    0 - f.users_to_remove, 0 - act_removed, curr_gain)
        st == add_remove_user(current_ic, work_of(s, f.obj_gain_so_far), FALSE)
    IN
    /\ s.pc = "try_improve"
    /\ f.pc = "enter"
    /\ IF abort
       THEN SetTh(w, ti_return(s, f, FALSE, work_of(s, f.obj_gain_so_far), <<>>))
       ELSE SetTh(w, ti_continue(s,
                [f EXCEPT !.pc = "loop",
                          !.considered_cells = Append(@, idx),
                          !.moves = <<current_ic>>,
                          !.act_removed = act_removed,
                          !.co_idx = get_costs_idx(act_removed),
                          !.co_it = 1, !.count = 0],
                st))
    /\ OnlyTh

\* Line 543 with no limit on the count: a fault the bound of the candidates
\* has to reveal.
max_count_never(count) == FALSE

\* Line 543: ++count > max_count, `count` being the value incremented.
max_count_passed(count) == count > max_count

\* Lines 516-544, up to the test of time_finished: the next candidate is
\* skipped, or added and followed by get_removable.
TiLoop(w) ==
    LET s == th[w]
        f == Top(s)
        j == f.curr_idx[2]
        list == statistics.costs_order[f.co_idx][j]
        st0 == work_of(s, f.obj_gain_so_far)
    IN
    /\ s.pc = "try_improve"
    /\ f.pc = "loop"
    /\ IF f.co_it > Len(list)
       THEN SetTh(w, ti_fail(s, f, st0))
       ELSE LET new_idx == list[f.co_it]
                new_m == new_idx[3]
                users_to_add == CeilDiv(f.act_removed, problem.act_per_user[new_m])
                curr_cost == problem.costs[new_idx] * users_to_add
                current_ic == improved_move(new_idx[1], j, new_m, new_idx[4], users_to_add,
                                  users_to_add * problem.act_per_user[new_m], 0 - curr_cost)
                st1 == add_remove_user(current_ic, st0, FALSE)
                next == [f EXCEPT !.co_it = @ + 1]
            IN
            IF \/ new_idx \in Range(f.considered_cells)
               \/ problem.users_available[convert_index(new_idx)] < users_to_add
            THEN SetTh(w, ti_continue(s, next, st0))
            ELSE \E sorted \in (IF st1.done_in_j[j] - problem.activities[j] > 0
                                THEN sort_costs_desc(s.sm.moves_to_j[j])
                                ELSE {s.sm.moves_to_j[j]}) :
                 \E r \in {get_removable(j, sorted, st1, Append(f.moves, current_ic))} :
                   LET s1 == [s EXCEPT !.sm = [@ EXCEPT !.moves_to_j = [@ EXCEPT ![j] = sorted]]]
                       f1 == [next EXCEPT !.new_idx = new_idx,
                                          !.prev_imp_size = Len(f.moves),
                                          !.moves = r.moves,
                                          !.adds = @ + 1]
                   IN  IF r.st.gain < min_gain
                       THEN SetTh(w, ti_fail(s1, f1, r.st))
                       ELSE IF max_count_passed(f.count + 1)
                       THEN SetTh(w, ti_fail(s1, [f1 EXCEPT !.count = @ + 1], r.st))
                       ELSE SetTh(w, ti_continue(s1,
                                [f1 EXCEPT !.count = @ + 1, !.pc = "check"], r.st))
    /\ OnlyTh

\* Line 543, the test of time_finished, and lines 548-566.
TiCheck(w) ==
    LET s == th[w]
        f == Top(s)
        st == work_of(s, f.obj_gain_so_far)
        users_available == st.users_available[convert_index(f.new_idx)]
    IN
    /\ s.pc = "try_improve"
    /\ f.pc = "check"
    /\ IF time_finished
       THEN SetTh(w, ti_fail(s, f, st))
       ELSE IF users_available >= 0
       THEN IF f.obj_gain_so_far > 0
            THEN SetTh(w, ti_return(s, f, TRUE, st, f.moves))
            ELSE SetTh(w, ti_continue(s,
                    [f EXCEPT !.pc = "loop", !.moves = SubSeq(@, 1, f.prev_imp_size)],
                    undo_back(f.moves, f.prev_imp_size, st)))
       ELSE SetTh(w, ti_continue(s,
                [f EXCEPT !.pc = "sibling", !.users_available = users_available, !.a = 0],
                st))
    /\ OnlyTh

\* Lines 571-592: the next move from the same group of users is tried by a
\* recursive call; when none is left the candidate is undone.
TiSibling(w) ==
    LET s == th[w]
        f == Top(s)
        from_i == s.sm.moves_from_i[f.new_idx[1]]
        st == work_of(s, f.obj_gain_so_far)
    IN
    /\ s.pc = "try_improve"
    /\ f.pc = "sibling"
    /\ IF f.a >= Len(from_i)
       THEN SetTh(w, ti_continue(s,
                [f EXCEPT !.pc = "loop", !.moves = SubSeq(@, 1, f.prev_imp_size)],
                undo_back(f.moves, f.prev_imp_size, st)))
       ELSE LET dest == from_i[f.a + 1] IN
            IF dest[3] = f.new_idx[3] /\ dest[4] = f.new_idx[4]
            THEN SetTh(w, [s EXCEPT
                    !.stack = Append(@, ti_frame(f.it_level + 1, dest, 0 - f.users_available,
                                                 f.obj_gain_so_far, f.considered_cells, s)),
                    !.calls = @ + 1])
            ELSE SetTh(w, [s EXCEPT !.stack = SetTop(s, [f EXCEPT !.a = @ + 1])])
    /\ OnlyTh

\* improving_phase lines 439-441 adding nothing: a fault the value of the
\* objective has to reveal.
sum_obj_gain_none(imp_moves, b) == 0

\* improving_phase lines 439-441
RECURSIVE sum_obj_gain(_, _)
sum_obj_gain(imp_moves, b) ==
    IF b > Len(imp_moves) THEN 0
    ELSE imp_moves[b].obj_gain + sum_obj_gain(imp_moves, b + 1)

\* The caller takes the result: lines 579-584 in try_improve, lines 437-443
\* in improving_phase.
TiReturn(w) ==
    LET s == th[w] IN
    /\ s.pc = "ti_return"
    /\ IF s.stack = <<>>
       THEN IF s.ret.ok
            THEN SetTh(w, [s EXCEPT !.pc = "ip_while",
                                    !.improvement = @ + sum_obj_gain(s.ret.imp_moves, 1),
                                    !.chains = @ + 1])
            ELSE SetTh(w, [s EXCEPT !.pc = "ip_for_m", !.m = @ - 1])
       ELSE LET f == Top(s) IN
            IF s.ret.ok
            THEN SetTh(w, ti_return(s, f, TRUE, work_of(s, f.obj_gain_so_far),
                                    f.moves \o s.ret.imp_moves))
            ELSE SetTh(w, [s EXCEPT !.pc = "try_improve",
                                    !.stack = SetTop(s, [f EXCEPT !.a = @ + 1])])
    /\ OnlyTh

\* -------------------------------------------------------- improving_phase

\* thread_body line 162, and improving_phase line 427 when it is entered.
Improve(w) ==
    LET s == th[w] IN
    /\ s.pc = "improve"
    /\ IF s.gain # 0 /\ ~time_finished
       THEN SetTh(w, [s EXCEPT !.pc = "ip_for_a", !.sm = improving_setup(s.best_solution),
                               !.improvement = 0, !.a = 0])
       ELSE SetTh(w, [s EXCEPT !.pc = "update"])
    /\ OnlyTh

\* improving_phase line 431; when the loop ends, line 447 and thread_body
\* lines 163-164.
IpForA(w) ==
    LET s == th[w] IN
    /\ s.pc = "ip_for_a"
    /\ IF s.a < Len(s.sm.moves) /\ ~time_finished
       THEN SetTh(w, [s EXCEPT !.pc = "ip_for_m", !.m = statistics.max_act_per_user])
       ELSE SetTh(w, [s EXCEPT !.pc = "improve", !.gain = s.improvement,
                               !.best_objfun = @ - s.improvement,
                               !.sm = <<>>, !.ret = <<>>, !.a = 0, !.m = 0])
    /\ OnlyTh

\* improving_phase line 433
IpForM(w) ==
    LET s == th[w] IN
    /\ s.pc = "ip_for_m"
    /\ IF s.m > 0 /\ ~time_finished
       THEN SetTh(w, [s EXCEPT !.pc = "ip_while"])
       ELSE SetTh(w, [s EXCEPT !.pc = "ip_for_a", !.a = @ + 1])
    /\ OnlyTh

\* improving_phase line 437: the test of time_finished and the call.
IpWhile(w) ==
    LET s == th[w] IN
    /\ s.pc = "ip_while"
    /\ IF ~time_finished
       THEN SetTh(w, [s EXCEPT !.pc = "try_improve",
                               !.stack = <<ti_frame(0, s.sm.moves[s.a + 1], s.m, 0, <<>>, s)>>,
                               !.calls = @ + 1])
       ELSE SetTh(w, [s EXCEPT !.pc = "ip_for_m", !.m = @ - 1])
    /\ OnlyTh

\* thread_body lines 169-172 without the comparison: a fault the monotonicity
\* has to reveal.
UpdateAlways(w) ==
    /\ th[w].pc = "update"
    /\ param' = [param EXCEPT ![w].obj_function = th[w].best_objfun,
                                ![w].solution = th[w].best_solution]
    /\ SetTh(w, [th[w] EXCEPT !.pc = "outer"])
    /\ UNCHANGED <<problem, statistics, nthreads, time_finished,
                   fewusers_time_finished, timers, sv>>

\* thread_body lines 169-172
Update(w) ==
    LET s == th[w] IN
    /\ s.pc = "update"
    /\ IF s.best_objfun < param[w].obj_function
       THEN param' = [param EXCEPT ![w].obj_function = s.best_objfun,
                                   ![w].solution = s.best_solution]
       ELSE UNCHANGED param
    /\ SetTh(w, [s EXCEPT !.pc = "outer"])
    /\ UNCHANGED <<problem, statistics, nthreads, time_finished,
                   fewusers_time_finished, timers, sv>>

\* ------------------------------------------------------------------ solve

\* Every function over the domain of S that takes in x a value of S[x].
RECURSIVE Choices(_)
Choices(S) ==
    IF DOMAIN S = {} THEN {<<>>}
    ELSE LET x == CHOOSE y \in DOMAIN S : TRUE
         IN  {(x :> v) @@ f : v \in S[x],
                              f \in Choices([y \in DOMAIN S \ {x} |-> S[y]])}

\* Every table initialization_phase may leave in statistics.costs_order.
costs_orders ==
    {[k \in Types |-> [j \in Cells |-> c[<<k, j>>]]] :
        c \in Choices([kj \in Types \X Cells |-> fill_cells_order(kj[1], kj[2])])}

\* coiote_solver::write_kpi: the fields of the line it writes, none when it
\* writes nothing.
write_kpi(instance_name) ==
    IF ~sv.has_solution THEN <<>>
    ELSE <<instance_name>> \o sv.kpi

\* coiote_solver::is_feasible
is_feasible ==
    LET solution == sv.solution
        done(j) == SumOver([x \in four_dimensions |->
                               problem.act_per_user[x[3]] * solution[x]],
                           {x \in four_dimensions : x[2] = j})
        moved(b) == SumOver(solution, {x \in four_dimensions : convert_index(x) = b})
        objfun_verify == SumOver([x \in four_dimensions |-> solution[x] * problem.costs[x]],
                                 four_dimensions)
    IN
    IF ~sv.has_solution THEN "NO_SOLUTION"
    ELSE IF \E j \in Cells : done(j) < problem.activities[j] THEN "NOT_FEASIBLE_DEMAND"
    ELSE IF \E b \in three_dimensions :
              \/ moved(b) > problem.users_available[b]
              \/ solution[<<b[1], b[1], b[2], b[3]>>] # 0
         THEN "NOT_FEASIBLE_USERS"
    ELSE IF objfun_verify # sv.kpi[1] THEN "WRONG_OBJFUNCTVAL"
    ELSE "FEASIBLE"

OnlySv == UNCHANGED <<problem, statistics, nthreads, time_finished,
                      fewusers_time_finished, timers, param, th>>

\* Lines 38-39, timer::timer: the timer thread is started.
StartTimer(name) ==
    /\ sv.pc = "start_" \o name
    /\ timers' = [timers EXCEPT ![name] = [NoTimer EXCEPT !.pc = "waiting"]]
    /\ sv' = [sv EXCEPT !.pc = IF name = "normal_timer" THEN "start_fewusers_timer"
                               ELSE "initialization_phase"]
    /\ UNCHANGED <<problem, statistics, nthreads, time_finished,
                   fewusers_time_finished, param, th>>

\* Line 42, coiote_solver::initialization_phase, the threads it fires and joins
\* included; lines 44-49.
InitializationPhase ==
    /\ sv.pc = "initialization_phase"
    /\ \E costs_order \in costs_orders :
         statistics' = [statistics EXCEPT
            !.act_per_user_sorted = act_per_user_sorted_of(problem),
            !.max_act_per_user = act_per_user_sorted_of(problem)[0],
            !.max_activities = MaxOf(problem.activities, Cells),
            !.costs_order = costs_order]
    /\ sv' = [sv EXCEPT !.pc = "fire", !.a = 0, !.obj_function = Infinity,
                        !.best_solution = -1]
    /\ UNCHANGED <<problem, nthreads, time_finished, fewusers_time_finished,
                   timers, param, th>>

\* Lines 52-55: worker a gets its th_parameter and is fired; line 58.
Fire ==
    /\ sv.pc = "fire"
    /\ param' = [param EXCEPT ![sv.a] = th_parameter]
    /\ th' = [th EXCEPT ![sv.a] = thread_locals]
    /\ sv' = IF sv.a + 1 < nthreads THEN [sv EXCEPT !.a = @ + 1]
             ELSE [sv EXCEPT !.pc = "join", !.a = 0, !.iter_counter = 0]
    /\ UNCHANGED <<problem, statistics, nthreads, time_finished,
                   fewusers_time_finished, timers>>

\* Lines 59-67 with <= for <: a fault the choice of the worker has to reveal.
JoinLast ==
    /\ sv.pc = "join"
    /\ th[sv.a].pc = "done"
    /\ sv' = [sv EXCEPT
            !.iter_counter = @ + param[sv.a].iterations,
            !.obj_function = Min(param[sv.a].obj_function, @),
            !.best_solution = IF param[sv.a].obj_function <= sv.obj_function
                              THEN sv.a ELSE @,
            !.a = IF sv.a + 1 < nthreads THEN sv.a + 1 ELSE 0,
            !.pc = IF sv.a + 1 < nthreads THEN "join" ELSE "store"]
    /\ OnlySv

\* Lines 59-67: worker a is joined and its result compared.
Join ==
    LET a == sv.a
        better == param[a].obj_function < sv.obj_function
    IN
    /\ sv.pc = "join"
    /\ th[a].pc = "done"
    /\ sv' = [sv EXCEPT
            !.iter_counter = @ + param[a].iterations,
            !.obj_function = IF better THEN param[a].obj_function ELSE @,
            !.best_solution = IF better THEN a ELSE @,
            !.a = IF a + 1 < nthreads THEN a + 1 ELSE 0,
            !.pc = IF a + 1 < nthreads THEN "join" ELSE "store"]
    /\ OnlySv

\* Lines 70-74
Store ==
    /\ sv.pc = "store"
    /\ sv' = [sv EXCEPT
            !.solution = IF sv.best_solution = -1 THEN @
                         ELSE param[sv.best_solution].solution,
            !.pc = "stop_normal_timer"]
    /\ OnlySv

\* Where solve() goes on after stopping the timer.
after_stop(name) ==
    IF name = "normal_timer" THEN "stop_fewusers_timer" ELSE "report"

\* Lines 77-78, timer::stop up to the join: `end` is set and the timer thread
\* notified; a timer already stopped is left alone.
Stop(name) ==
    /\ sv.pc = "stop_" \o name
    /\ IF ~timers[name].stopped
       THEN /\ timers' = [timers EXCEPT ![name].end = TRUE]
            /\ sv' = [sv EXCEPT !.pc = "join_" \o name]
       ELSE /\ UNCHANGED timers
            /\ sv' = [sv EXCEPT !.pc = after_stop(name)]
    /\ UNCHANGED <<problem, statistics, nthreads, time_finished,
                   fewusers_time_finished, param, th>>

\* timer::stop with a join that does not wait for the timer thread: a
\* fault the order of the join and of the callback has to reveal.
StopJoinEarly(name) ==
    /\ sv.pc = "join_" \o name
    /\ timers' = [timers EXCEPT ![name].stopped = TRUE, ![name].joins = @ + 1]
    /\ sv' = [sv EXCEPT !.pc = after_stop(name)]
    /\ UNCHANGED <<problem, statistics, nthreads, time_finished,
                   fewusers_time_finished, param, th>>

\* timer::stop, the join and what follows it.
StopJoin(name) ==
    /\ sv.pc = "join_" \o name
    /\ timers[name].pc = "finished"
    /\ timers' = [timers EXCEPT ![name].stopped = TRUE, ![name].joins = @ + 1]
    /\ sv' = [sv EXCEPT !.pc = after_stop(name)]
    /\ UNCHANGED <<problem, statistics, nthreads, time_finished,
                   fewusers_time_finished, param, th>>

\* Lines 91-98: the users of type m the solution moves.
n_users(solution, m) ==
    SumOver(solution, {x \in four_dimensions : x[3] = m})

\* Lines 81-99 without the test of line 81: a fault the report of no
\* solution has to reveal.
ReportTrue ==
    /\ sv.pc = "report"
    /\ sv' = [sv EXCEPT
            !.pc = "returned", !.has_solution = TRUE, !.result = TRUE,
            !.kpi = @ \o <<sv.obj_function, "elapsed">>
                      \o [k \in 1 .. problem.n_cust_types |-> n_users(sv.solution, k - 1)]]
    /\ OnlySv

\* Lines 81-99: the result; the elapsed time is not modelled.
Report ==
    /\ sv.pc = "report"
    /\ IF sv.obj_function = Infinity
       THEN sv' = [sv EXCEPT !.pc = "returned", !.has_solution = FALSE, !.result = FALSE]
       ELSE sv' = [sv EXCEPT
                !.pc = "returned", !.has_solution = TRUE, !.result = TRUE,
                !.kpi = @ \o <<sv.obj_function, "elapsed">>
                          \o [k \in 1 .. problem.n_cust_types |-> n_users(sv.solution, k - 1)]]
    /\ OnlySv

\* timer::~timer when solve() returns, fewusers_timer first, normal_timer
\* after it (the reverse of their construction): stop(), which leaves a timer
\* already stopped alone, sets `end` of a timer still waiting and joins one
\* that has finished.
Destroy(name) ==
    /\ sv.pc = "returned"
    /\ timers[name].pc \in {"waiting", "finished"}
    /\ name = "normal_timer" => timers["fewusers_timer"].pc = "destroyed"
    /\ IF timers[name].stopped
       THEN timers' = [timers EXCEPT ![name].pc = "destroyed"]
       ELSE IF timers[name].pc = "finished"
       THEN timers' = [timers EXCEPT ![name].stopped = TRUE, ![name].joins = @ + 1]
       ELSE timers' = [timers EXCEPT ![name].end = TRUE]
    /\ UNCHANGED <<problem, statistics, nthreads, time_finished,
                   fewusers_time_finished, sv, param, th>>

\* ------------------------------------------------------- the state machine

\* The solver as its constructor leaves it, solve() about to run.
Init ==
    /\ \E c \in Configurations : problem = c[1] /\ nthreads = c[2]
    /\ statistics = [ act_per_user_sorted |-> [m \in Types |-> 0],
                      max_act_per_user |-> 0, max_activities |-> 0,
                      costs_order |-> <<>>,
                      act_slots |-> [null |-> TRUE, data |-> <<>>, built |-> 0] ]
    /\ time_finished = FALSE
    /\ fewusers_time_finished = FALSE
    /\ timers = [name \in TimerNames |-> NoTimer]
    /\ sv = [ pc |-> "start_normal_timer", a |-> 0, obj_function |-> Infinity,
              best_solution |-> -1, iter_counter |-> 0,
              solution |-> ZeroSolution, has_solution |-> FALSE, kpi |-> <<>>,
              result |-> FALSE, solves |-> 1 ]
    /\ param = [w \in Workers |-> th_parameter]
    /\ th = [w \in Workers |-> Unstarted]

\* greedy and greedy_few_users read no flag and write nothing another thread
\* reads: a step of another thread commutes with each of their steps, so every
\* run is equivalent to one where no call of them is interrupted.  Only those
\* runs are explored: a worker inside a call is the only thread that steps.
InGreedy(w) ==
    th[w].pc \in {"greedy_cell", "greedy_select", "few_cell", "few_select", "after_greedy"}

Uninterrupted == \A w \in Workers : ~InGreedy(w)

Next ==
    \/ Uninterrupted /\ \E name \in TimerNames : StartTimer(name)
    \/ Uninterrupted /\ \E name \in TimerNames : TimerExpire(name)
    \/ Uninterrupted /\ \E name \in TimerNames : TimerWake(name)
    \/ Uninterrupted /\ InitializationPhase
    \/ Uninterrupted /\ Fire
    \/ Uninterrupted /\ \E w \in Workers : Outer(w)
    \/ Uninterrupted /\ \E w \in Workers : Inner(w)
    \/ \E w \in Workers : GreedyCell(w)
    \/ \E w \in Workers : GreedySelect(w)
    \/ \E w \in Workers : GreedyRebalance(w)
    \/ \E w \in Workers : FewCell(w)
    \/ \E w \in Workers : FewSelect(w)
    \/ \E w \in Workers : AfterGreedy(w)
    \/ Uninterrupted /\ \E w \in Workers : CheckSlots(w)
    \/ Uninterrupted /\ \E w \in Workers : NewSlots(w)
    \/ Uninterrupted /\ \E w \in Workers : Improve(w)
    \/ Uninterrupted /\ \E w \in Workers : IpForA(w)
    \/ Uninterrupted /\ \E w \in Workers : IpForM(w)
    \/ Uninterrupted /\ \E w \in Workers : IpWhile(w)
    \/ Uninterrupted /\ \E w \in Workers : TiEnter(w)
    \/ Uninterrupted /\ \E w \in Workers : TiLoop(w)
    \/ Uninterrupted /\ \E w \in Workers : TiCheck(w)
    \/ Uninterrupted /\ \E w \in Workers : TiSibling(w)
    \/ Uninterrupted /\ \E w \in Workers : TiReturn(w)
    \/ Uninterrupted /\ \E w \in Workers : Update(w)
    \/ Uninterrupted /\ Join
    \/ Uninterrupted /\ Store
    \/ Uninterrupted /\ \E name \in TimerNames : Stop(name)
    \/ Uninterrupted /\ \E name \in TimerNames : StopJoin(name)
    \/ Uninterrupted /\ Report
    \/ Uninterrupted /\ \E name \in TimerNames : Destroy(name)

Spec == Init /\ [][Next]_vars

\* A specification with fairness: a thread that can step is not left waiting
\* for ever (the scheduler of the operating system runs every ready thread).
FairSpec == Spec /\ WF_vars(Next)

\* ------------------------------------------------------------ properties

Started == {w \in Workers : th[w].pc # "unstarted"}

\* Users of bucket b the solution moves.
moved_from(solution, b) ==
    SumOver(solution, {x \in four_dimensions : convert_index(x) = b})

\* Activities the solution does in cell j.
done_in(solution, j) ==
    SumOver([x \in four_dimensions |-> problem.act_per_user[x[3]] * solution[x]],
            {x \in four_dimensions : x[2] = j})

\* Cost of the solution.
cost_of(solution) ==
    SumOver([x \in four_dimensions |-> problem.costs[x] * solution[x]], four_dimensions)

Supply(solution) ==
    \A b \in three_dimensions : moved_from(solution, b) <= problem.users_available[b]

Demand(solution) ==
    \A j \in Cells : done_in(solution, j) >= problem.activities[j]

NoSelf(solution) ==
    \A b \in three_dimensions : solution[<<b[1], b[1], b[2], b[3]>>] = 0

Returned == sv.pc = "returned"

\* C1: when solve() has returned true the stored solution moves, from every
\* bucket (i,m,t), at most the users available in it; so does the solution
\* every worker has recorded, whatever greedy runs and committed chains of
\* try_improve led to it.
C1_Supply ==
    /\ (Returned /\ sv.result) => Supply(sv.solution)
    /\ \A w \in Started : Supply(param[w].solution)

\* solve() returned true with a solution that a committed chain improved and
\* that uses up a bucket.
C1_Witness ==
    /\ Returned /\ sv.result
    /\ th[sv.best_solution].chains > 0
    /\ \E b \in three_dimensions :
         moved_from(sv.solution, b) = problem.users_available[b] /\ moved_from(sv.solution, b) > 0

\* C2: the solution of every greedy run (standard or scarce) that returns a
\* finite objective, the solution improving_phase leaves, and the solution
\* stored when solve() returns true do, in every cell, at least the
\* activities the cell asks for.
C2_Demand ==
    /\ \A w \in Started :
         /\ (th[w].pc = "after_greedy" /\ th[w].current_objfun # Infinity)
                => Demand(th[w].current_solution)
         /\ (th[w].pc \in {"improve", "ip_for_a", "ip_for_m", "ip_while", "update"}
                /\ th[w].best_objfun # Infinity)
                => Demand(th[w].best_solution)
    /\ (Returned /\ sv.result) => Demand(sv.solution)

\* A scarce greedy run has returned a finite objective.
C2_Witness ==
    \E w \in Started :
        /\ th[w].pc = "after_greedy"
        /\ th[w].few_users_mode
        /\ th[w].current_objfun # Infinity

\* C3: no solution a greedy run or try_improve produces, and no solution a
\* worker records or solve() stores, moves a user to its own cell.
C3_NoSelf ==
    /\ NoSelf(sv.solution)
    /\ \A w \in Started :
         /\ NoSelf(th[w].current_solution)
         /\ NoSelf(th[w].best_solution)
         /\ NoSelf(param[w].solution)

\* In an instance whose destination cell has users of its own, at no cost, a
\* worker has recorded a solution that try_improve worked on.
C3_Witness ==
    \E w \in Started :
        /\ th[w].calls > 0
        /\ param[w].obj_function # Infinity
        /\ \E b \in three_dimensions :
             problem.activities[b[1]] > 0 /\ problem.users_available[b] > 0

\* C4: when solve() has returned true kpi[0] is the cost of the stored
\* solution; the objective a worker has recorded is the cost of the solution
\* it has recorded.
C4_Objective ==
    /\ (Returned /\ sv.result) => sv.kpi[1] = cost_of(sv.solution)
    /\ \A w \in Started :
         param[w].obj_function # Infinity
            => param[w].obj_function = cost_of(param[w].solution)

\* A worker has recorded a solution that a committed chain improved after a
\* greedy run that removed users in excess.
C4_Witness ==
    \E w \in Started :
        /\ th[w].pc = "outer"
        /\ th[w].chains > 0
        /\ param[w].obj_function = th[w].best_objfun
        /\ param[w].obj_function # Infinity

LeastOf(S) == CHOOSE x \in S : \A y \in S : x <= y

AfterJoin ==
    sv.pc \in {"stop_normal_timer", "join_normal_timer", "stop_fewusers_timer",
               "join_fewusers_timer", "report", "returned"}

\* C5: once every worker is joined the objective of solve() is the least
\* objective a worker recorded, and the stored solution is the one recorded by
\* the worker of lowest index among those with that objective.
C5_Best ==
    AfterJoin =>
        LET least == LeastOf({param[w].obj_function : w \in Workers})
            first == LeastOf({w \in Workers : param[w].obj_function = least})
        IN  /\ sv.obj_function = least
            /\ sv.solution = param[first].solution
            /\ least # Infinity => sv.best_solution = first

\* Two workers recorded the same finite objective and solve() has returned.
C5_Witness ==
    /\ Returned
    /\ nthreads = 2
    /\ param[0].obj_function = param[1].obj_function
    /\ param[0].obj_function # Infinity

\* C6: solve() returns false, with has_solution false and no KPI, exactly
\* when the objective of every worker is +infinity; write_kpi then writes
\* nothing and is_feasible returns NO_SOLUTION.  In S2 every greedy run
\* returns +infinity and solve() reports no solution.
C6_NoSolution ==
    /\ Returned =>
         /\ ~sv.result <=> \A w \in Workers : param[w].obj_function = Infinity
         /\ sv.has_solution = sv.result
         /\ ~sv.result => /\ sv.kpi = <<>>
                          /\ write_kpi("instance") = <<>>
                          /\ is_feasible = "NO_SOLUTION"
         /\ sv.result => sv.kpi # <<>> /\ write_kpi("instance") # <<>>
    /\ problem = InstanceS2 =>
         /\ \A w \in Started : th[w].pc = "after_greedy" => th[w].current_objfun = Infinity
         /\ Returned => ~sv.result

\* solve() has returned in S2 after a worker ran the scarce greedy.
C6_Witness ==
    /\ Returned
    /\ problem = InstanceS2
    /\ \E w \in Workers : th[w].few_users_mode /\ th[w].runs >= 2

\* C7: the objective a worker has recorded never grows, and what it has
\* recorded changes only for a strictly smaller objective.
C7_Monotonic ==
    [][\A w \in Workers :
          /\ param'[w].obj_function <= param[w].obj_function
          /\ param'[w] # param[w] =>
                \/ param'[w].obj_function < param[w].obj_function
                \/ /\ param'[w].obj_function = param[w].obj_function
                   /\ param'[w].solution = param[w].solution]_vars

\* A pass of the outer loop ended with an objective above the recorded one,
\* which was kept.
C7_Witness ==
    \E w \in Started :
        /\ th[w].pc = "outer"
        /\ param[w].obj_function # Infinity
        /\ th[w].best_objfun > param[w].obj_function
        /\ th[w].best_objfun # Infinity

\* C8: when a call of try_improve returns false the solution,
\* statistics_moves.users_available and done_in_j are what they were when the
\* call was entered, and param.obj_gain_so_far has its value at entry.
C8_Undo ==
    \A w \in Started :
        (th[w].pc = "ti_return" /\ ~th[w].ret.ok) =>
            /\ th[w].best_solution = th[w].ret.entry.solution
            /\ th[w].sm.users_available = th[w].ret.entry.users_available
            /\ th[w].sm.done_in_j = th[w].ret.entry.done_in_j
            /\ th[w].ret.obj_gain_so_far = th[w].ret.entry.obj_gain_so_far

\* A call at a recursion level below the first returned false after undoing
\* the users it removed and those it added.
C8_Witness ==
    \E w \in Started :
        /\ th[w].pc = "ti_return"
        /\ ~th[w].ret.ok
        /\ Len(th[w].ret.undone) >= 2

\* The flag a worker polls at the loop heads of thread_body.
polled(w) ==
    IF th[w].few_users_mode THEN fewusers_time_finished ELSE time_finished

\* C9 as stated: once either flag is true no worker starts a greedy run or a
\* call of try_improve.
C9_Original ==
    [][(time_finished \/ fewusers_time_finished) =>
          \A w \in Workers : /\ th'[w].runs = th[w].runs
                             /\ th'[w].calls = th[w].calls]_vars

\* C9: a worker starts no greedy run while the flag it polls is true
\* (time_finished in standard mode, fewusers_time_finished in scarce mode);
\* improving_phase calls try_improve only when it reads time_finished false;
\* a call that reads time_finished true at line 543 returns false without a
\* recursive call.
C9_Cancellation ==
    [][\A w \in Workers :
          /\ polled(w) => th'[w].runs = th[w].runs
          /\ (time_finished /\ th[w].stack = <<>>) => th'[w].calls = th[w].calls
          /\ (time_finished /\ th[w].pc = "try_improve" /\ Top(th[w]).pc = "check"
                /\ th'[w] # th[w])
                => (th'[w].pc = "ti_return" /\ ~th'[w].ret.ok)]_vars

\* A worker in scarce mode is in a greedy run it started with time_finished
\* true.
C9_Witness ==
    \E w \in Started :
        /\ th[w].few_users_mode
        /\ th[w].pc \in {"few_cell", "few_select"}
        /\ time_finished
        /\ ~fewusers_time_finished

\* C10: once both flags are true every worker returns from thread_body and
\* solve() joins them, stops the timers and returns.
C10_Termination ==
    (time_finished /\ fewusers_time_finished) ~> Returned

\* Both flags are true while a worker is in a recursive call of try_improve.
C10_Witness ==
    /\ time_finished
    /\ fewusers_time_finished
    /\ \E w \in Started : th[w].pc = "try_improve" /\ Len(th[w].stack) >= 2

C12_Flags ==
    [][/\ time_finished => time_finished'
       /\ fewusers_time_finished => fewusers_time_finished'
       /\ time_finished' # time_finished =>
             /\ timers'["normal_timer"].callbacks = timers["normal_timer"].callbacks + 1
             /\ UNCHANGED <<sv, param, th>>
       /\ fewusers_time_finished' # fewusers_time_finished =>
             /\ timers'["fewusers_timer"].callbacks = timers["fewusers_timer"].callbacks + 1
             /\ UNCHANGED <<sv, param, th>>
       /\ \A name \in TimerNames : timers'[name].callbacks <= 1]_vars

\* Both flags were set, the workers went on reading them, and solve() has
\* returned with both still true.
C12_Witness ==
    /\ Returned
    /\ time_finished
    /\ fewusers_time_finished
    /\ \E w \in Workers : th[w].runs > 0

\* C13: the table of slots is built once in a solve: no two workers find
\* statistics.act_slots null and build a table each.
C13_BuiltOnce == statistics.act_slots.built <= 1

\* initialization_phase has run.
Initialized == statistics.costs_order # <<>>

\* costs[x] / min(act_per_user[m of x], cap) <= costs[y] / min(act_per_user[m of y], cap)
reduced_leq(cap, x, y) ==
    LET dx == IF problem.act_per_user[x[3]] < cap THEN problem.act_per_user[x[3]] ELSE cap
        dy == IF problem.act_per_user[y[3]] < cap THEN problem.act_per_user[y[3]] ELSE cap
    IN  problem.costs[x] * dy <= problem.costs[y] * dx

\* C14: after initialization_phase, in costs_order[k][j] of every limiting
\* index k and every cell j that asks for activities, each tuple has a reduced
\* cost not above that of the tuple after it.
C14_Ordered ==
    Initialized =>
        \A k \in Types : \A j \in Cells :
            problem.activities[j] > 0 =>
                LET list == statistics.costs_order[k][j] IN
                \A p \in 1 .. (Len(list) - 1) :
                    reduced_leq(statistics.act_per_user_sorted[k], list[p], list[p + 1])

\* In S3 the list of limiting index 0 (cap 3) has the user of 3 activities,
\* of cost 15, before the user of 1 activity, of cost 10.
C14_Witness ==
    /\ Initialized
    /\ problem = InstanceS3
    /\ statistics.act_per_user_sorted[0] = 3
    /\ statistics.costs_order[0][1] = << <<0, 1, 1, 0>>, <<0, 1, 0, 0>> >>

\* ------------------------------------------------- activities_slots alone

\* Largest number of activities of a user the table is built for.
MaxActPerUser == 4

\* Largest max_activities the table is built for.
MaxSlotActivities == 6

\* The instances the table is built for: one or two types of users.
SlotsProblems ==
    {input_problem(2, Len(apu), 1, apu, <<0, A>>, <<>>, <<>>) :
        apu \in UNION {[1 .. n -> 1 .. MaxActPerUser] : n \in 1 .. 2},
        A \in 0 .. MaxSlotActivities}

\* The solver when a worker is about to build the table (line 148), no query
\* made yet.
SlotsInit ==
    /\ problem \in SlotsProblems
    /\ nthreads = 1
    /\ statistics = [ act_per_user_sorted |-> act_per_user_sorted_of(problem),
                      max_act_per_user |-> act_per_user_sorted_of(problem)[0],
                      max_activities |-> MaxOf(problem.activities, Cells),
                      costs_order |-> [k \in Types |-> [j \in Cells |-> <<>>]],
                      act_slots |-> [null |-> TRUE, data |-> <<>>, built |-> 0] ]
    /\ time_finished = FALSE
    /\ fewusers_time_finished = FALSE
    /\ timers = [name \in TimerNames |-> NoTimer]
    /\ sv = [pc |-> "slots", demand |-> 0, m |-> 0, skip |-> FALSE, selected |-> FALSE]
    /\ param = [w \in Workers |-> th_parameter]
    /\ th = [w \in Workers |-> Unstarted]

\* Line 148: new activities_slots(statistics.max_activities, n_cust_types,
\* problem.act_per_user)
SlotsBuild ==
    /\ statistics.act_slots.null
    /\ statistics' = [statistics EXCEPT
            !.act_slots = [ null |-> FALSE,
                            data |-> activities_slots(statistics.max_activities,
                                                      problem.act_per_user),
                            built |-> @.built + 1 ]]
    /\ UNCHANGED <<problem, nthreads, time_finished, fewusers_time_finished,
                   timers, sv, param, th>>

\* Lines 307 and 337 of greedy_few_users: should_skip and can_be_selected
\* asked about a demand and a type.
SlotsQuery ==
    /\ ~statistics.act_slots.null
    /\ \E demand \in 0 .. statistics.max_activities : \E m \in Types :
         sv' = [sv EXCEPT !.pc = "queried", !.demand = demand, !.m = m,
                          !.skip = should_skip(demand),
                          !.selected = can_be_selected(demand, m)]
    /\ UNCHANGED <<problem, statistics, nthreads, time_finished,
                   fewusers_time_finished, timers, param, th>>

SlotsNext ==
    \/ SlotsBuild
    \/ SlotsQuery

SlotsSpec == SlotsInit /\ [][SlotsNext]_vars

\* The table, once built.
reach == statistics.act_slots.data

sentinel == problem.n_cust_types

is_sum(a) ==
    \E count \in [Types -> 0 .. a] :
        SumOver([m \in Types |-> count[m] * problem.act_per_user[m]], Types) = a

\* C16: for every a in 1..max_activities, should_skip(a) is false exactly
\* when a is a sum of activities of users, and can_be_selected(a, m) is true
\* exactly when a >= act_per_user[m] and what is left, a - act_per_user[m],
\* is 0 or such a sum; the entry of the table is the sentinel of the row
\* a - act_per_user[m]; the answers given to the queries are those.
C16_Reachability ==
    ~statistics.act_slots.null =>
        /\ \A a \in 1 .. statistics.max_activities :
              /\ ~should_skip(a) <=> is_sum(a)
              /\ \A m \in Types :
                    /\ can_be_selected(a, m) <=>
                          /\ a >= problem.act_per_user[m]
                          /\ is_sum(a - problem.act_per_user[m])
                    /\ a >= problem.act_per_user[m] =>
                          reach[a][m] = reach[a - problem.act_per_user[m]][sentinel]
        /\ (sv.pc = "queried" /\ sv.demand >= 1) =>
              /\ sv.skip = ~is_sum(sv.demand)
              /\ sv.selected =
                    (/\ sv.demand >= problem.act_per_user[sv.m]
                     /\ is_sum(sv.demand - problem.act_per_user[sv.m]))

\* With users of 3 and 4 activities a demand of 6 is not skipped, and the
\* user of 4 activities, which leaves 2, cannot be selected.
C16_Witness ==
    /\ sv.pc = "queried"
    /\ problem.act_per_user = (0 :> 3 @@ 1 :> 4)
    /\ sv.demand = 6
    /\ sv.m = 1
    /\ ~sv.skip
    /\ ~sv.selected
    /\ should_skip(5)
    /\ can_be_selected(6, 0)

\* C17: a worker in scarce mode checks its deadlines against
\* fewusers_time_finished: while that flag is false it goes on improving its
\* best solution: the loop of thread_body calls improving_phase, and
\* improving_phase calls try_improve.
C17_ScarceBudget ==
    [][\A w \in Workers :
          (th[w].few_users_mode /\ ~fewusers_time_finished /\ th'[w] # th[w]) =>
              /\ (th[w].pc = "improve" /\ th[w].gain # 0) => th'[w].pc = "ip_for_a"
              /\ th[w].pc = "ip_while" => th'[w].pc = "try_improve"]_vars

\* The positions of `list` a selection step of greedy scans before it stops:
\* those with users available that come before the first one whose effective
\* cost, costs / min(demand, act_per_user), is above that of an earlier one.
scanned(list, demand, users_available) ==
    LET avail(p) == users_available[convert_index(list[p])] > 0
        den(p) == IF demand < problem.act_per_user[list[p][3]] THEN demand
                  ELSE problem.act_per_user[list[p][3]]
        above(q, r) == problem.costs[list[q]] * den(r) > problem.costs[list[r]] * den(q)
    IN  {p \in 1 .. Len(list) :
            /\ avail(p)
            /\ \A q \in 1 .. p : \A r \in 1 .. (q - 1) :
                  (avail(q) /\ avail(r)) => ~above(q, r)}

\* C18: in a selection step of the standard greedy the user committed is
\* one of those scanned, and no scanned user of equal effective cost has a
\* strictly smaller usage; so in S4, where two users tie, the second restart
\* of a worker commits the one its first restart did not.
C18_TieBreak ==
    /\ [][\A w \in Workers :
            (th[w].pc = "greedy_select" /\ th[w].demand > 0
                /\ Len(th'[w].inserted_indexes) = Len(th[w].inserted_indexes) + 1) =>
                LET s == th[w]
                    j == s.order[s.pos]
                    list == statistics.costs_order[get_costs_idx(s.demand)][j]
                    x == th'[w].inserted_indexes[Len(th'[w].inserted_indexes)]
                    den(y) == IF s.demand < problem.act_per_user[y[3]] THEN s.demand
                              ELSE problem.act_per_user[y[3]]
                    tie(y) == problem.costs[y] * den(x) = problem.costs[x] * den(y)
                    less_used(y) ==
                        s.usage[convert_index(y)] * problem.users_available[convert_index(x)]
                            < s.usage[convert_index(x)] * problem.users_available[convert_index(y)]
                    S == scanned(list, s.demand, s.users_available)
                IN  /\ \E p \in S : list[p] = x
                    /\ \A p \in S : tie(list[p]) => ~less_used(list[p])]_vars
    /\ [](problem = InstanceS4 =>
            \A w \in Started :
                (th[w].pc = "after_greedy" /\ th[w].runs = 2) =>
                    /\ th[w].usage[<<0, 0, 0>>] = 1
                    /\ th[w].usage[<<1, 0, 0>>] = 1)

\* In S4 a worker has ended its second restart, in which the two users tied
\* and one had been used in the first.
C18_Witness ==
    /\ problem = InstanceS4
    /\ \E w \in Started :
          /\ th[w].pc = "after_greedy"
          /\ th[w].runs = 2
          /\ th[w].current_objfun = 5

\* The cells a run of the standard greedy of worker w has finished with.
cells_done(w) ==
    IF th[w].pc = "greedy_cell" /\ ~th[w].few_users_mode
    THEN {th[w].order[q] : q \in 1 .. (th[w].pos - 1)}
    ELSE {}

\* C19: when the standard greedy has finished with a cell j, the activities
\* done in j meet its demand, no entry of the solution is negative, and every
\* user the run assigned to j does more activities than are in excess in j;
\* on S3 the greedy returns the solution {(0,1,1,0): 1} with objective 15.
C19_Rebalance ==
    /\ \A w \in Started :
          /\ InGreedy(w) \/ th[w].pc = "greedy_cell" =>
                \A x \in four_dimensions : th[w].current_solution[x] >= 0
          /\ \A j \in cells_done(w) :
                LET excess == done_in(th[w].current_solution, j) - problem.activities[j] IN
                /\ excess >= 0
                /\ \A x \in four_dimensions :
                      (x[2] = j /\ th[w].current_solution[x] > 0) =>
                          problem.act_per_user[x[3]] > excess
    /\ problem = InstanceS3 =>
          \A w \in Started :
              (th[w].pc = "after_greedy" /\ ~th[w].few_users_mode) =>
                  /\ th[w].current_objfun = 15
                  /\ th[w].current_solution =
                        [x \in four_dimensions |-> IF x = <<0, 1, 1, 0>> THEN 1 ELSE 0]

\* The greedy has finished with a cell from which the rebalance removed the
\* users of one kind, which left no activity in excess.
C19_Witness ==
    \E w \in Started : \E j \in cells_done(w) :
        /\ j = th[w].order[th[w].pos - 1]
        /\ \E x \in Range(th[w].inserted_indexes) : th[w].current_solution[x] = 0
        /\ done_in(th[w].current_solution, j) = problem.activities[j]

\* ------------------------------------------- solve() called more than once

\* Calls of solve() on one solver object.
MaxSolves == 2

\* solve() is called again on the solver it has returned from.  The timers,
\* threads and th_parameters of the call before are gone (lines 72-78 and the
\* destructors of the locals); the members of the solver are as that call
\* left them: nothing in lines 26-55 assigns time_finished or
\* fewusers_time_finished, which only the constructor sets to false.
SolveAgain ==
    /\ sv.pc = "returned"
    /\ \A name \in TimerNames : timers[name].pc = "destroyed"
    /\ sv.solves < MaxSolves
    /\ sv' = [sv EXCEPT !.pc = "start_normal_timer", !.solves = @ + 1, !.a = 0,
                        !.obj_function = Infinity, !.best_solution = -1,
                        !.iter_counter = 0, !.result = FALSE]
    /\ timers' = [name \in TimerNames |-> NoTimer]
    /\ param' = [w \in Workers |-> th_parameter]
    /\ th' = [w \in Workers |-> Unstarted]
    /\ UNCHANGED <<problem, statistics, nthreads, time_finished, fewusers_time_finished>>

ReuseNext ==
    \/ Next
    \/ SolveAgain

ReuseSpec == Init /\ [][ReuseNext]_vars

\* C20: when a call of solve() starts, the first on a solver or a later one,
\* both flags are false; so the workers of a later call run the greedy.
C20_FreshFlags ==
    /\ sv.pc = "start_normal_timer" => ~time_finished /\ ~fewusers_time_finished
    /\ (sv.solves > 1 /\ AfterJoin) => \E w \in Workers : th[w].runs > 0

\* ------------------------------------------------- the greedy selection

\* The reduced cost of x is at most that of y for a residual demand d:
\* costs[x] / min(d, act_per_user[x.m]) <= costs[y] / min(d, act_per_user[y.m]).
effective_leq(d, x, y) ==
    problem.costs[x] * Min(d, problem.act_per_user[y[3]])
        <= problem.costs[y] * Min(d, problem.act_per_user[x[3]])

\* C21: at every selection step of the standard greedy for cell j with
\* residual demand d, the tuple committed has the least reduced cost
\* costs / min(d, act_per_user[m]) among the entries of
\* costs_order[get_costs_idx(d)][j] whose bucket has users left: the break
\* of the scan skips no cheaper candidate.
C21_MinCost ==
    [][\A w \in Workers :
          (/\ th[w].pc = "greedy_select"
           /\ th[w].demand > 0
           /\ Len(th'[w].inserted_indexes) = Len(th[w].inserted_indexes) + 1)
          => LET d == th[w].demand
                 j == th[w].order[th[w].pos]
                 list == statistics.costs_order[get_costs_idx(d)][j]
                 idx == th'[w].inserted_indexes[Len(th'[w].inserted_indexes)]
             IN  \A x \in Range(list) :
                    th[w].users_available[convert_index(x)] > 0
                        => effective_leq(d, idx, x)]_vars

\* ------------------------------------------------- the 'few users' mode

\* The worker is inside a greedy function.
in_standard(w) == th[w].pc \in {"greedy_cell", "greedy_select"}
in_few_users(w) == th[w].pc \in {"few_cell", "few_select"}

\* C22: the 'few users' mode of a worker is entered only after one of its
\* own runs of the standard greedy returned +infinity, is never left, makes
\* every later run use greedy_few_users and the loop heads poll
\* fewusers_time_finished, and leaves the mode of the other workers alone.
C22_OneWay ==
    /\ [][\A w \in Workers :
            /\ th[w].few_users_mode => th'[w].few_users_mode
            /\ (~th[w].few_users_mode /\ th'[w].few_users_mode)
                  => /\ th[w].pc \in {"check_slots", "new_slots"}
                     /\ th[w].current_objfun = Infinity
                     /\ \A v \in Workers \ {w} :
                           th'[v].few_users_mode = th[v].few_users_mode
            /\ (th[w].pc = "inner" /\ in_standard(w)') => ~th[w].few_users_mode
            /\ (th[w].pc = "inner" /\ in_few_users(w)') => th[w].few_users_mode
            /\ (th[w].few_users_mode /\ th[w].pc = "outer" /\ th'[w].pc # "outer")
                  => (th'[w].pc = "done" <=> fewusers_time_finished)
            /\ (th[w].few_users_mode /\ th[w].pc = "inner" /\ th'[w].pc # "inner")
                  => (in_few_users(w)' <=> ~fewusers_time_finished
                                           /\ th[w].iterations < iteration_limit)]_vars
    /\ [](\A w \in Workers :
            /\ th[w].pc \in {"check_slots", "new_slots"}
                  => th[w].current_objfun = Infinity /\ ~th[w].few_users_mode
            /\ in_standard(w) => ~th[w].few_users_mode
            /\ in_few_users(w) => th[w].few_users_mode
            /\ th[w].few_users_mode
                  <=> th[w].current_time_finished = "fewusers_time_finished")

\* A worker runs greedy_few_users past the first deadline while another
\* worker is still in the standard mode.
C22_Witness ==
    /\ nthreads = 2
    /\ time_finished /\ ~fewusers_time_finished
    /\ \E w, v \in Workers :
         /\ th[w].few_users_mode /\ th[w].pc = "few_select"
         /\ ~th[v].few_users_mode /\ th[v].pc # "unstarted"

\* ------------------------------------------------ try_improve, feasibility

\* The solution and the statistics try_improve works on are those of a
\* feasible solution.
feasible_work(s) ==
    /\ \A b \in three_dimensions : s.sm.users_available[b] >= 0
    /\ \A j \in Cells : s.sm.done_in_j[j] >= problem.activities[j]
    /\ \A x \in four_dimensions : s.best_solution[x] >= 0

\* The worker is in improving_phase, outside every call of try_improve.
between_calls(w) ==
    \/ th[w].pc \in {"ip_for_a", "ip_for_m", "ip_while"}
    \/ th[w].pc = "ti_return" /\ th[w].stack = <<>>

\* C23: after every call of try_improve that returns true, at any depth,
\* every bucket has a residual supply >= 0, every cell has done_in_j >=
\* activities and every entry of the solution is >= 0; a negative residual
\* supply exists only inside a call that has not returned yet.
C23_Feasible ==
    \A w \in Workers :
        /\ (th[w].pc = "ti_return" /\ th[w].ret.ok) => feasible_work(th[w])
        /\ between_calls(w) => feasible_work(th[w])

\* A nested call has returned true, after a residual supply was negative.
C23_Witness ==
    \E w \in Workers :
        /\ th[w].pc = "ti_return" /\ th[w].ret.ok /\ th[w].stack # <<>>
        /\ Top(th[w]).users_available < 0

\* ------------------------------------------------------ try_improve, gain

\* C24: when a call of try_improve made by improving_phase returns true, the
\* sum of obj_gain over the moves it returns is > 0 and is the objective of
\* the solution before the call minus the objective after it; the gain
\* improving_phase accumulates is >= 0 and is the decrease of the objective
\* since it was entered.
C24_Gain ==
    \A w \in Workers :
        /\ (th[w].pc = "ti_return" /\ th[w].stack = <<>> /\ th[w].ret.ok)
              => /\ sum_obj_gain(th[w].ret.imp_moves, 1) > 0
                 /\ sum_obj_gain(th[w].ret.imp_moves, 1)
                        = cost_of(th[w].ret.entry.solution) - cost_of(th[w].best_solution)
        /\ th[w].pc \in {"ip_for_a", "ip_for_m", "ip_while"}
              => /\ th[w].improvement >= 0
                 /\ th[w].best_objfun - th[w].improvement = cost_of(th[w].best_solution)
        /\ (th[w].pc = "improve" /\ th[w].gain # -1)
              => /\ th[w].gain >= 0
                 /\ th[w].best_objfun = cost_of(th[w].best_solution)

\* On S6 a call made by improving_phase returns true with a chain through a
\* nested call that takes the objective from 11 to 3.
C24_Witness ==
    \E w \in Workers :
        /\ problem = InstanceS6
        /\ th[w].pc = "ti_return" /\ th[w].stack = <<>> /\ th[w].ret.ok
        /\ Len(th[w].ret.imp_moves) >= 4
        /\ cost_of(th[w].ret.entry.solution) = 11
        /\ cost_of(th[w].best_solution) = 3

\* ----------------------------------------------- try_improve, recursion

\* solve() on S10 with one worker: the instance is feasible for the standard
\* greedy, so the steps of the 'few users' mode are never taken.
DepthInit ==
    /\ problem = InstanceS10
    /\ nthreads = 1
    /\ statistics = [ act_per_user_sorted |-> [m \in Types |-> 0],
                      max_act_per_user |-> 0, max_activities |-> 0,
                      costs_order |-> <<>>,
                      act_slots |-> [null |-> TRUE, data |-> <<>>, built |-> 0] ]
    /\ time_finished = FALSE
    /\ fewusers_time_finished = FALSE
    /\ timers = [name \in TimerNames |-> NoTimer]
    /\ sv = [ pc |-> "start_normal_timer", a |-> 0, obj_function |-> Infinity,
              best_solution |-> -1, iter_counter |-> 0,
              solution |-> ZeroSolution, has_solution |-> FALSE, kpi |-> <<>>,
              result |-> FALSE, solves |-> 1 ]
    /\ param = [w \in Workers |-> th_parameter]
    /\ th = [w \in Workers |-> Unstarted]

DepthNext ==
    \/ Uninterrupted /\ \E name \in TimerNames : StartTimer(name)
    \/ Uninterrupted /\ \E name \in TimerNames : TimerExpire(name)
    \/ Uninterrupted /\ \E name \in TimerNames : TimerWake(name)
    \/ Uninterrupted /\ InitializationPhase
    \/ Uninterrupted /\ Fire
    \/ Uninterrupted /\ \E w \in Workers : Outer(w)
    \/ Uninterrupted /\ \E w \in Workers : Inner(w)
    \/ \E w \in Workers : GreedyCell(w)
    \/ \E w \in Workers : GreedySelect(w)
    \/ \E w \in Workers : GreedyRebalance(w)
    \/ \E w \in Workers : AfterGreedy(w)
    \/ Uninterrupted /\ \E w \in Workers : Improve(w)
    \/ Uninterrupted /\ \E w \in Workers : IpForA(w)
    \/ Uninterrupted /\ \E w \in Workers : IpForM(w)
    \/ Uninterrupted /\ \E w \in Workers : IpWhile(w)
    \/ Uninterrupted /\ \E w \in Workers : TiEnter(w)
    \/ Uninterrupted /\ \E w \in Workers : TiLoop(w)
    \/ Uninterrupted /\ \E w \in Workers : TiCheck(w)
    \/ Uninterrupted /\ \E w \in Workers : TiSibling(w)
    \/ Uninterrupted /\ \E w \in Workers : TiReturn(w)
    \/ Uninterrupted /\ \E w \in Workers : Update(w)
    \/ Uninterrupted /\ Join
    \/ Uninterrupted /\ Store
    \/ Uninterrupted /\ \E name \in TimerNames : Stop(name)
    \/ Uninterrupted /\ \E name \in TimerNames : StopJoin(name)
    \/ Uninterrupted /\ Report
    \/ Uninterrupted /\ \E name \in TimerNames : Destroy(name)

DepthSpec == DepthInit /\ [][DepthNext]_vars

\* The activations of try_improve of the worker that have passed the guard
\* of line 494 and removed their users.
activations(w) == {k \in DOMAIN th[w].stack : th[w].stack[k].pc # "enter"}

\* C25 as stated: no chain of nested activations of try_improve that have
\* removed their users is longer than max_level = 5.
C25_Original ==
    \A w \in Workers : Cardinality(activations(w)) <= max_level

\* C25: an activation of try_improve that removes its users has it_level <=
\* max_level = 5, the levels of a chain being 0, 1, 2, ..; so a chain of
\* nested activations has at most max_level + 1 = 6 of them.
C25_Depth ==
    \A w \in Workers :
        /\ Cardinality(activations(w)) <= max_level + 1
        /\ \A k \in DOMAIN th[w].stack : th[w].stack[k].it_level = k - 1
        /\ \A k \in activations(w) : th[w].stack[k].it_level <= max_level

\* A seventh nested call, at level 6, has returned false at the guard, its
\* six callers having removed their users.
C25_Witness ==
    \E w \in Workers :
        /\ th[w].pc = "ti_return"
        /\ ~th[w].ret.ok
        /\ th[w].ret.it_level = max_level + 1
        /\ th[w].ret.undone = <<>>
        /\ Cardinality(activations(w)) = max_level + 1

\* ----------------------------------------------- try_improve, candidates

\* The order an insertion sort leaves `s` in under `before`: one of the
\* orders of std_sort, entries that compare equal keeping their order.
RECURSIVE stable_sort(_, _, _)
stable_sort(s, D, before) ==
    IF D = {} THEN <<>>
    ELSE LET first == {q \in D : \A r \in D : <<s[r], s[q]>> \notin before}
             p == CHOOSE q \in first : \A r \in first : q <= r
         IN  <<s[p]>> \o stable_sort(s, D \ {p}, before)

\* fill_cells_order(index) for cell j when std::sort leaves the entries of
\* equal reduced cost in the order they were pushed in.
fill_cells_order_stable(index, j) ==
    IF problem.activities[j] = 0 THEN <<>>
    ELSE LET S == pushed_indexes(j)
             max_done == act_per_user_sorted_of(problem)[index]
             pushed == in_loop_order(S)
         IN  stable_sort(pushed, DOMAIN pushed,
                         {<<x, y>> \in S \X S : cmp_costs_asc(max_done, x, y)})

\* initialization_phase on S11.  The 22 users at costs 2 to 5 are of the
\* same type and differ by their time step only; std::sort leaves those of
\* equal cost in an unspecified order, and the runs explored are those where
\* it keeps them in the order of the loops.
InitializationPhaseStable ==
    /\ sv.pc = "initialization_phase"
    /\ statistics' = [statistics EXCEPT
            !.act_per_user_sorted = act_per_user_sorted_of(problem),
            !.max_act_per_user = act_per_user_sorted_of(problem)[0],
            !.max_activities = MaxOf(problem.activities, Cells),
            !.costs_order = [k \in Types |-> [j \in Cells |-> fill_cells_order_stable(k, j)]]]
    /\ sv' = [sv EXCEPT !.pc = "fire", !.a = 0, !.obj_function = Infinity,
                        !.best_solution = -1]
    /\ UNCHANGED <<problem, nthreads, time_finished, fewusers_time_finished,
                   timers, param, th>>

\* solve() on S11 with one worker.
CountInit ==
    /\ problem = InstanceS11
    /\ nthreads = 1
    /\ statistics = [ act_per_user_sorted |-> [m \in Types |-> 0],
                      max_act_per_user |-> 0, max_activities |-> 0,
                      costs_order |-> <<>>,
                      act_slots |-> [null |-> TRUE, data |-> <<>>, built |-> 0] ]
    /\ time_finished = FALSE
    /\ fewusers_time_finished = FALSE
    /\ timers = [name \in TimerNames |-> NoTimer]
    /\ sv = [ pc |-> "start_normal_timer", a |-> 0, obj_function |-> Infinity,
              best_solution |-> -1, iter_counter |-> 0,
              solution |-> ZeroSolution, has_solution |-> FALSE, kpi |-> <<>>,
              result |-> FALSE, solves |-> 1 ]
    /\ param = [w \in Workers |-> th_parameter]
    /\ th = [w \in Workers |-> Unstarted]

\* The steps of solve() on S11: the instance is feasible and try_improve
\* never draws from a bucket in use, so neither the 'few users' mode nor a
\* nested call is ever entered.
CountNext ==
    \/ Uninterrupted /\ \E name \in TimerNames : StartTimer(name)
    \/ Uninterrupted /\ \E name \in TimerNames : TimerExpire(name)
    \/ Uninterrupted /\ \E name \in TimerNames : TimerWake(name)
    \/ Uninterrupted /\ InitializationPhaseStable
    \/ Uninterrupted /\ Fire
    \/ Uninterrupted /\ \E w \in Workers : Outer(w)
    \/ Uninterrupted /\ \E w \in Workers : Inner(w)
    \/ \E w \in Workers : GreedyCell(w)
    \/ \E w \in Workers : GreedySelect(w)
    \/ \E w \in Workers : GreedyRebalance(w)
    \/ \E w \in Workers : AfterGreedy(w)
    \/ Uninterrupted /\ \E w \in Workers : Improve(w)
    \/ Uninterrupted /\ \E w \in Workers : IpForA(w)
    \/ Uninterrupted /\ \E w \in Workers : IpForM(w)
    \/ Uninterrupted /\ \E w \in Workers : IpWhile(w)
    \/ Uninterrupted /\ \E w \in Workers : TiEnter(w)
    \/ Uninterrupted /\ \E w \in Workers : TiLoop(w)
    \/ Uninterrupted /\ \E w \in Workers : TiCheck(w)
    \/ Uninterrupted /\ \E w \in Workers : TiReturn(w)
    \/ Uninterrupted /\ \E w \in Workers : Update(w)
    \/ Uninterrupted /\ Join
    \/ Uninterrupted /\ Store
    \/ Uninterrupted /\ \E name \in TimerNames : Stop(name)
    \/ Uninterrupted /\ \E name \in TimerNames : StopJoin(name)
    \/ Uninterrupted /\ Report
    \/ Uninterrupted /\ \E name \in TimerNames : Destroy(name)

CountSpec == CountInit /\ [][CountNext]_vars

\* C26 as stated: within one activation of try_improve at most max_count =
\* 20 candidates are added to the solution.
C26_Original ==
    \A w \in Workers :
        /\ \A k \in DOMAIN th[w].stack : th[w].stack[k].adds <= max_count
        /\ (th[w].pc = "ti_return" /\ th[w].ret # <<>>) => th[w].ret.adds <= max_count

\* C26: within one activation of try_improve at most max_count + 1 = 21
\* candidates are added to the solution and at most max_count = 20 of them
\* reach the test of the users available, the 21st being undone by the
\* break of line 544; a candidate skipped at line 525 is neither added nor
\* counted.
C26_Count ==
    /\ [](\A w \in Workers :
            /\ \A k \in DOMAIN th[w].stack :
                  /\ th[w].stack[k].adds <= max_count + 1
                  /\ th[w].stack[k].count <= th[w].stack[k].adds
                  /\ th[w].stack[k].pc \in {"check", "sibling"}
                        => th[w].stack[k].count <= max_count
            /\ (th[w].pc = "ti_return" /\ th[w].ret # <<>>)
                  => th[w].ret.adds <= max_count + 1)
    /\ [][\A w \in Workers :
            (/\ th[w].pc = "try_improve" /\ th'[w].pc = "try_improve"
             /\ Len(th[w].stack) = Len(th'[w].stack)
             /\ Top(th[w]).pc = "loop" /\ Top(th[w])'.pc = "loop")
            => /\ Top(th[w])'.count = Top(th[w]).count
               /\ Top(th[w])'.adds = Top(th[w]).adds
               /\ th'[w].best_solution = th[w].best_solution]_vars

\* An activation has returned false at its 21st candidate, which it added
\* after skipping the move it started from and then undid with the users it
\* had removed, a 22nd candidate being left in the list.
C26_Witness ==
    \E w \in Workers :
        /\ th[w].pc = "ti_return"
        /\ ~th[w].ret.ok
        /\ th[w].ret.adds = max_count + 1
        /\ Len(th[w].ret.undone) = 2
        /\ th[w].best_solution = th[w].ret.entry.solution
        /\ Len(statistics.costs_order[0][1]) > max_count + 2

\* ------------------------------------------------- try_improve, tabu list

\* The moves of a list that add users.
added_in(moves) == {moves[k].f_idx : k \in {l \in DOMAIN moves : moves[l].user_added > 0}}

\* C27: along a chain of nested activations of try_improve the moves
\* curr_idx they started from are all different and are the tabu list of
\* the innermost one; no candidate is added while it is in the tabu list;
\* when an activation returns false the tabu list of its parameter, and
\* that of its caller, are as they were when it was called.
C27_Tabu ==
    \A w \in Workers :
        /\ \A k \in activations(w) :
              LET f == th[w].stack[k] IN
              /\ Len(f.considered_cells) = k
              /\ \A l \in 1 .. k : f.considered_cells[l] = th[w].stack[l].curr_idx
              /\ \A l \in 1 .. (k - 1) : th[w].stack[l].curr_idx # f.curr_idx
              /\ added_in(f.moves) \cap Range(f.considered_cells) = {}
              /\ f.pc \in {"check", "sibling"} => f.new_idx \notin Range(f.considered_cells)
        /\ (th[w].pc = "ti_return" /\ th[w].ret # <<>> /\ ~th[w].ret.ok)
              => /\ th[w].ret.considered_cells = th[w].ret.entry.considered_cells
                 /\ th[w].ret.undone # <<>>
                       => added_in(th[w].ret.undone)
                            \cap (Range(th[w].ret.considered_cells) \cup {th[w].ret.curr_idx}) = {}
                 /\ th[w].stack # <<>>
                       => Top(th[w]).considered_cells = th[w].ret.considered_cells

\* A nested call that had put its move in the tabu list and added a
\* candidate has returned false to a caller whose candidate is still in
\* place.
C27_Witness ==
    \E w \in Workers :
        /\ th[w].pc = "ti_return" /\ th[w].ret # <<>> /\ ~th[w].ret.ok
        /\ th[w].stack # <<>>
        /\ Len(th[w].ret.undone) >= 2
        /\ th[w].ret.considered_cells # <<>>
        /\ Top(th[w]).pc = "sibling"

\* ------------------------------------------------- try_improve, undo log

\* The entry a call of add_remove_user on `ic` leaves in the log of the step.
logged(ic, undo) == [f_idx |-> ic.f_idx, user_added |-> ic.user_added, undo |-> undo]

\* The calls of add_remove_user that undo a move, among those of a log.
RECURSIVE undos_of(_)
undos_of(log) ==
    IF log = <<>> THEN <<>>
    ELSE (IF log[1].undo THEN <<log[1]>> ELSE <<>>) \o undos_of(Tail(log))

\* The moves of `moves` undone from the first to the last, and from the last
\* to the first.
first_in_first_undone(moves) == [k \in DOMAIN moves |-> logged(moves[k], TRUE)]
last_in_first_undone(moves) ==
    [k \in DOMAIN moves |-> logged(moves[Len(moves) + 1 - k], TRUE)]

\* C28 as stated: a call of try_improve that returns false has undone the
\* moves of its list from the last applied to the first.
C28_Original ==
    \A w \in Workers :
        (th[w].pc = "ti_return" /\ th[w].ret # <<>> /\ ~th[w].ret.ok)
            => undos_of(th[w].ret.log) = last_in_first_undone(th[w].ret.undone)

\* C28: every delta applied is appended to `moves` in the order applied; the
\* deltas of a rejected candidate (lines 560-563 and 589-592) are undone from
\* the last applied to the first; the deltas of a call that returns false
\* (lines 596-598) are each undone once, from the first applied to the last.
C28_UndoOrder ==
    /\ [](\A w \in Workers :
            /\ (th[w].pc = "ti_return" /\ th[w].ret # <<>> /\ ~th[w].ret.ok)
                  => undos_of(th[w].ret.log) = first_in_first_undone(th[w].ret.undone)
            /\ \A k \in DOMAIN th[w].stack :
                  LET f == th[w].stack[k]
                      n == Len(f.log)
                  IN  f.pc = "check"
                        => /\ n >= 1 /\ n <= Len(f.moves)
                           /\ \A l \in 1 .. n :
                                 f.log[l] = logged(f.moves[Len(f.moves) - n + l], FALSE))
    /\ [][\A w \in Workers :
            (/\ th[w].pc = "try_improve" /\ th'[w].pc = "try_improve"
             /\ Len(th[w].stack) = Len(th'[w].stack)
             /\ Top(th[w]).pc \in {"check", "sibling"} /\ Top(th[w])'.pc = "loop")
            => LET f == Top(th[w]) IN
               Top(th[w])'.log
                  = last_in_first_undone(SubSeq(f.moves, f.prev_imp_size + 1, Len(f.moves)))]_vars

\* A call has returned false after undoing, first to last, the users it had
\* removed and a candidate it had added.
C28_Witness ==
    \E w \in Workers :
        /\ th[w].pc = "ti_return" /\ th[w].ret # <<>> /\ ~th[w].ret.ok
        /\ Len(th[w].ret.undone) >= 2
        /\ Len(undos_of(th[w].ret.log)) >= 2
        /\ th[w].ret.log[Len(th[w].ret.log)].f_idx # th[w].ret.curr_idx

\* ------------------------------------------------------------ get_removable

\* The worker is at line 516 with a candidate that lines 525-528 do not
\* skip: the step adds it and calls get_removable.
candidate_of(w) ==
    LET s == th[w]
        f == Top(s)
        list == statistics.costs_order[f.co_idx][f.curr_idx[2]]
    IN  IF s.pc = "try_improve" /\ f.pc = "loop" /\ f.co_it <= Len(list)
        THEN LET new_idx == list[f.co_it]
                 users_to_add == CeilDiv(f.act_removed, problem.act_per_user[new_idx[3]])
             IN  IF \/ new_idx \in Range(f.considered_cells)
                    \/ problem.users_available[convert_index(new_idx)] < users_to_add
                 THEN {}
                 ELSE {improved_move(new_idx[1], new_idx[2], new_idx[3], new_idx[4],
                                     users_to_add,
                                     users_to_add * problem.act_per_user[new_idx[3]],
                                     0 - problem.costs[new_idx] * users_to_add)}
        ELSE {}

\* What get_removable(j) returns on the state `st` and the list `moves`,
\* against what the claim allows.
prunes_overshoot(j, sorted, st, moves) ==
    LET r == get_removable(j, sorted, st, moves)
        removed == [x \in four_dimensions |-> st.solution[x] - r.st.solution[x]]
        n == Len(r.moves) - Len(moves)
    IN  /\ \A x \in four_dimensions :
              /\ removed[x] >= 0
              /\ removed[x] > 0 => x[2] = j /\ st.solution[x] > 0 /\ r.st.solution[x] >= 0
        /\ \A c \in Cells \ {j} : r.st.done_in_j[c] = st.done_in_j[c]
        /\ r.st.done_in_j[j] <= st.done_in_j[j]
        /\ r.st.done_in_j[j] < st.done_in_j[j] => r.st.done_in_j[j] >= problem.activities[j]
        /\ \A b \in three_dimensions : r.st.users_available[b] >= st.users_available[b]
        /\ r.st.gain >= st.gain
        /\ n = SumOver(removed, four_dimensions)
        /\ SubSeq(r.moves, 1, Len(moves)) = moves
        /\ \A k \in (Len(moves) + 1) .. Len(r.moves) :
              LET ic == r.moves[k] IN
              /\ ic.user_added = -1
              /\ ic.f_idx[2] = j
              /\ removed[ic.f_idx] > 0
              /\ ic.activities_added = 0 - problem.act_per_user[ic.f_idx[3]]
              /\ ic.obj_gain = problem.costs[ic.f_idx]

\* C29: get_removable(j) removes users one at a time, from moves to cell j
\* that have users and only while their activities fit in the redundancy:
\* no entry of the solution becomes negative, done_in_j[j] stays >=
\* activities[j], no residual supply decreases, the gain returned is >= 0
\* and every removal is appended to the list of moves of the caller.
C29_Removable ==
    \A w \in Workers :
        \A ic \in candidate_of(w) :
            LET s == th[w]
                f == Top(s)
                j == f.curr_idx[2]
                st == add_remove_user(ic, work_of(s, f.obj_gain_so_far), FALSE)
            IN  \A sorted \in (IF st.done_in_j[j] - problem.activities[j] > 0
                                THEN sort_costs_desc(s.sm.moves_to_j[j])
                                ELSE {s.sm.moves_to_j[j]}) :
                    prunes_overshoot(j, sorted, st, Append(f.moves, ic))

\* get_removable has removed a user in excess after a candidate was added.
C29_Witness ==
    \E w \in Workers :
        /\ th[w].pc = "try_improve"
        /\ Top(th[w]).pc = "check"
        /\ Len(Top(th[w]).log) >= 2
        /\ Top(th[w]).log[2].user_added = -1
        /\ ~Top(th[w]).log[2].undo

\* --------------------------------------- greedy_few_users, the first pass

\* The worker is in the first pass of greedy_few_users (enable_wasting false).
first_pass(w) == in_few_users(w) /\ ~th[w].enable_wasting /\ ~statistics.act_slots.null

\* The users the solution moves to cell j.
users_to(solution, j) == SumOver(solution, {x \in four_dimensions : x[2] = j})

\* C30: in the first pass of greedy_few_users every step commits one user,
\* the demand left in a cell is never negative and, after a commit, is one
\* should_skip is false for; a cell whose demand should_skip is true for is
\* given no user in this pass.
C30_NoWaste ==
    /\ [](\A w \in Workers :
            first_pass(w) =>
                /\ th[w].pc = "few_select"
                      => th[w].demand >= 0 /\ ~should_skip(th[w].demand)
                /\ \A b \in DOMAIN th[w].order :
                      /\ th[w].remaining_demand[b] >= 0
                      /\ should_skip(problem.activities[th[w].order[b]])
                            => users_to(th[w].current_solution, th[w].order[b]) = 0)
    /\ [][\A w \in Workers :
            (first_pass(w) /\ th[w].pc = "few_select"
                           /\ th'[w].current_solution # th[w].current_solution)
            => LET j == th[w].order[th[w].pos] IN
               /\ \E x \in four_dimensions :
                     /\ x[2] = j
                     /\ th'[w].current_solution
                            = [th[w].current_solution EXCEPT ![x] = @ + 1]
                     /\ th'[w].demand = th[w].demand - problem.act_per_user[x[3]]
               /\ th'[w].pc = "few_select"
               /\ th'[w].demand >= 0
               /\ ~should_skip(th'[w].demand)]_vars

\* In the first pass a user has been committed to a cell while another
\* cell, whose demand no sum of activities equals, has been passed over.
C30_Witness ==
    \E w \in Workers :
        /\ first_pass(w)
        /\ th[w].pc = "few_select"
        /\ th[w].demand = 0
        /\ users_to(th[w].current_solution, th[w].order[th[w].pos]) > 0
        /\ \E b \in 1 .. (th[w].pos - 1) :
              should_skip(problem.activities[th[w].order[b]])

\* ---------------------------------------------- the supply a commit draws on

\* The step of worker w commits users in greedy or in greedy_few_users.
commits(w) ==
    /\ th[w].pc \in {"greedy_select", "few_select"}
    /\ th'[w].pc = th[w].pc
    /\ th'[w].current_solution # th[w].current_solution

\* C31: a commit of n users of the bucket (i,m,t), in greedy and in
\* greedy_few_users, finds at least n >= 1 users left in the bucket, also
\* when n is the 1 forced by demand / act_per_user[m] = 0; the users left of
\* every bucket are at every step between 0 and problem.users_available.
C31_Supply ==
    /\ [](\A w \in Started : \A b \in three_dimensions :
            /\ th[w].users_available[b] >= 0
            /\ th[w].users_available[b] <= problem.users_available[b])
    /\ [][\A w \in Workers :
            commits(w) =>
                \E b \in three_dimensions :
                    LET n == th[w].users_available[b] - th'[w].users_available[b]
                        idx == <<b[1], th[w].order[th[w].pos], b[2], b[3]>>
                    IN  /\ n >= 1
                        /\ th[w].users_available[b] >= n
                        /\ th'[w].users_available
                              = [th[w].users_available EXCEPT ![b] = @ - n]
                        /\ th'[w].current_solution
                              = [th[w].current_solution EXCEPT ![idx] = @ + n]]_vars

\* greedy has committed the one user forced by demand / act_per_user[m] = 0,
\* the second commit of that bucket for the cell, and users of it are left.
C31_Witness ==
    \E w \in Started :
        /\ th[w].pc = "greedy_select"
        /\ th[w].demand < 0
        /\ Len(th[w].inserted_indexes) >= 2
        /\ LET idx == th[w].inserted_indexes[Len(th[w].inserted_indexes)] IN
           /\ idx = th[w].inserted_indexes[Len(th[w].inserted_indexes) - 1]
           /\ th[w].users_available[convert_index(idx)] >= 0

\* ------------------------------------------------- the usage tracker's life

\* The step of worker w is an entry into greedy or greedy_few_users.
enters_greedy(w) ==
    th[w].pc = "inner" /\ th'[w].pc \in {"greedy_cell", "few_cell"}

\* C32: an entry into the greedy function zeroes the solution and sets the
\* users left to problem.users_available, the usage tracker being left as it
\* is; over the life of a worker usage changes only by a commit of greedy,
\* which adds the n users committed to the bucket they come from (n over
\* users_available in the source); the rebalance, greedy_few_users and the
\* improving phase leave it alone.
C32_Usage ==
    [][\A w \in Workers :
        th[w].pc # "unstarted" =>
            /\ enters_greedy(w) =>
                  /\ th'[w].current_solution = ZeroSolution
                  /\ th'[w].users_available = problem.users_available
                  /\ th'[w].usage = th[w].usage
            /\ (commits(w) /\ th[w].pc = "greedy_select") =>
                  \E b \in three_dimensions :
                      LET n == th[w].users_available[b] - th'[w].users_available[b] IN
                      n >= 1 /\ th'[w].usage = [th[w].usage EXCEPT ![b] = @ + n]
            /\ ~(commits(w) /\ th[w].pc = "greedy_select") =>
                  th'[w].usage = th[w].usage]_vars

\* A worker enters a greedy run with the usage of a bucket above the users
\* the bucket holds: what the runs before have added up.
C32_Witness ==
    \E w \in Started :
        /\ th[w].pc = "greedy_cell"
        /\ th[w].pos = 1
        /\ th[w].current_solution = ZeroSolution
        /\ \E b \in three_dimensions : th[w].usage[b] > problem.users_available[b]

\* ---------------------------------------------------- get_costs_idx alone

\* Largest number of types of users get_costs_idx is asked about.
MaxCustTypes == 3

\* The instances get_costs_idx is asked about: every vector of activities
\* per user of one to MaxCustTypes types.
IdxProblems ==
    {input_problem(2, Len(apu), 1, apu, <<0, 1>>, <<>>, <<>>) :
        apu \in UNION {[1 .. n -> 1 .. MaxActPerUser] : n \in 1 .. MaxCustTypes}}

\* The solver after lines 375-380 of initialization_phase, no index asked yet.
IdxInit ==
    /\ problem \in IdxProblems
    /\ nthreads = 1
    /\ statistics = [ act_per_user_sorted |-> act_per_user_sorted_of(problem),
                      max_act_per_user |-> act_per_user_sorted_of(problem)[0],
                      max_activities |-> MaxOf(problem.activities, Cells),
                      costs_order |-> [k \in Types |-> [j \in Cells |-> <<>>]],
                      act_slots |-> [null |-> TRUE, data |-> <<>>, built |-> 0] ]
    /\ time_finished = FALSE
    /\ fewusers_time_finished = FALSE
    /\ timers = [name \in TimerNames |-> NoTimer]
    /\ sv = [pc |-> "idx", demand |-> 0, co_idx |-> 0]
    /\ param = [w \in Workers |-> th_parameter]
    /\ th = [w \in Workers |-> Unstarted]

\* Lines 200 and 317: statistics.get_costs_idx(demand), the demand left in a
\* cell being at least 1.
IdxQuery ==
    /\ \E demand \in 1 .. MaxSlotActivities :
         sv' = [pc |-> "idx_queried", demand |-> demand, co_idx |-> get_costs_idx(demand)]
    /\ UNCHANGED <<problem, statistics, nthreads, time_finished,
                   fewusers_time_finished, timers, param, th>>

IdxNext == IdxQuery

IdxSpec == IdxInit /\ [][IdxNext]_vars

\* The positions of act_per_user_sorted whose entry does not exceed the demand.
fitting(demand) == {k \in Types : statistics.act_per_user_sorted[k] <= demand}

\* C33: get_costs_idx(demand) is the smallest k of 0..M-1 with
\* act_per_user_sorted[k] <= demand, M-1 when there is none: an index of
\* 0..M-1 for every demand >= 1 and every vector of activities per user.
C33_CostsIdx ==
    /\ \A demand \in 1 .. MaxSlotActivities :
          /\ get_costs_idx(demand) \in Types
          /\ fitting(demand) = {} => get_costs_idx(demand) = problem.n_cust_types - 1
          /\ fitting(demand) # {} =>
                /\ get_costs_idx(demand) \in fitting(demand)
                /\ \A k \in fitting(demand) : get_costs_idx(demand) <= k
    /\ sv.pc = "idx_queried" =>
          /\ sv.co_idx \in Types
          /\ sv.co_idx = IF fitting(sv.demand) = {} THEN problem.n_cust_types - 1
                         ELSE CHOOSE k \in fitting(sv.demand) :
                                  \A l \in fitting(sv.demand) : k <= l

\* With users of 2, 4 and 3 activities a demand of 1 fits no entry and gets
\* the last index; a demand of 3 gets the index of the entry 3, the second.
C33_Witness ==
    /\ sv.pc = "idx_queried"
    /\ problem.act_per_user = (0 :> 2 @@ 1 :> 4 @@ 2 :> 3)
    /\ sv.demand = 1
    /\ sv.co_idx = 2
    /\ get_costs_idx(3) = 1

\* ---------------------------------------------- get_least_expensive alone

\* Largest length of the list get_least_expensive is asked about.
MaxListLen == 3

\* The orders of the buckets of cell 0 (one per time step) a list may hold.
LeastLists ==
    UNION {{s \in [1 .. n -> 0 .. (MaxListLen - 1)] :
               \A k \in 1 .. n : \A l \in 1 .. n : s[k] = s[l] => k = l} :
           n \in 0 .. MaxListLen}

\* The instance whose list for cell 1 holds the buckets in the order `s`:
\* two users in each of them, the costs growing along the list.
LeastProblem(s) ==
    input_problem(2, 1, MaxListLen, <<1>>, <<0, 1>>,
        [x \in {<<0, 0, s[k]>> : k \in DOMAIN s} |-> 2],
        [x \in {<<0, 1, 0, s[k]>> : k \in DOMAIN s} |->
            CHOOSE k \in DOMAIN s : s[k] = x[4]])

\* The solver inside a greedy run: the list of cell 1 as fill_cells_order
\* leaves it, any number of the users of each bucket left.
LeastInit ==
    /\ problem \in {LeastProblem(s) : s \in LeastLists}
    /\ nthreads = 1
    /\ statistics \in
          {[ act_per_user_sorted |-> act_per_user_sorted_of(problem),
             max_act_per_user |-> act_per_user_sorted_of(problem)[0],
             max_activities |-> MaxOf(problem.activities, Cells),
             costs_order |-> [k \in Types |-> [j \in Cells |->
                                IF j = 1 THEN list ELSE <<>>]],
             act_slots |-> [null |-> TRUE, data |-> <<>>, built |-> 0] ] :
           list \in fill_cells_order(0, 1)}
    /\ time_finished = FALSE
    /\ fewusers_time_finished = FALSE
    /\ timers = [name \in TimerNames |-> NoTimer]
    /\ sv = [pc |-> "least", begin |-> 0, it |-> 0]
    /\ param = [w \in Workers |-> th_parameter]
    /\ th \in {[w \in Workers |-> [thread_locals EXCEPT !.users_available = left]] :
               left \in {f \in [three_dimensions -> 0 .. 2] :
                            \A b \in three_dimensions : f[b] <= problem.users_available[b]}}

\* Lines 205 and 322: costs_order[co_idx][j].get_least_expensive(co_it,
\* users_available), co_it anywhere from begin() to end().
LeastQuery ==
    LET list == statistics.costs_order[0][1] IN
    /\ \E begin \in 1 .. (Len(list) + 1) :
         sv' = [pc |-> "least_queried", begin |-> begin,
                it |-> get_least_expensive(list, begin, th[0].users_available)]
    /\ UNCHANGED <<problem, statistics, nthreads, time_finished,
                   fewusers_time_finished, timers, param, th>>

LeastNext == LeastQuery

LeastSpec == LeastInit /\ [][LeastNext]_vars

\* C34: get_least_expensive(pos, supply) is the first position at or after
\* pos whose bucket has supply > 0, the end of the list when there is none;
\* it is never before pos, and the call changes neither the list nor the
\* supply.
C34_LeastExpensive ==
    /\ [](sv.pc = "least_queried" =>
            LET list == statistics.costs_order[0][1]
                left(k) == th[0].users_available[convert_index(list[k])]
            IN  /\ sv.it \in sv.begin .. (Len(list) + 1)
                /\ sv.it <= Len(list) => left(sv.it) > 0
                /\ \A k \in sv.begin .. (sv.it - 1) : left(k) <= 0)
    /\ [][sv' # sv => (statistics' = statistics /\ th' = th)]_vars

\* Asked from the second position of a list of three whose first bucket has
\* users left and whose second has none, the search answers the third.
C34_Witness ==
    LET list == statistics.costs_order[0][1] IN
    /\ sv.pc = "least_queried"
    /\ Len(list) = 3
    /\ sv.begin = 2
    /\ sv.it = 3
    /\ th[0].users_available[convert_index(list[1])] > 0
    /\ th[0].users_available[convert_index(list[2])] = 0

\* ------------------------------------- where a selection step starts its scan

\* The position of idx in the list.
position(list, idx) == CHOOSE p \in 1 .. Len(list) : list[p] = idx

\* The step of worker w is a commit of greedy that follows another commit
\* for the same cell.
next_commit(w) ==
    commits(w) /\ th[w].pc = "greedy_select" /\ th[w].inserted_indexes # <<>>

\* The demand the selection step before the current one started from: the
\* index it committed is in inserted_indexes once, with all its users.
demand_before(s) ==
    LET prev == s.inserted_indexes[Len(s.inserted_indexes)] IN
    s.demand + problem.act_per_user[prev[3]] * s.current_solution[prev]

\* C35 as stated: a selection step for cell j resumes the walk of
\* costs_order[k][j] where the selection step before it, for the same cell,
\* stopped: it selects an element after the one selected before.
C35_Original ==
    [][\A w \in Workers :
        next_commit(w) =>
            LET s == th[w]
                j == s.order[s.pos]
                k == get_costs_idx(s.demand)
                list == statistics.costs_order[k][j]
                prev == s.inserted_indexes[Len(s.inserted_indexes)]
                new == th'[w].inserted_indexes[Len(th'[w].inserted_indexes)]
            IN  k = get_costs_idx(demand_before(s)) =>
                    position(list, new) > position(list, prev)]_vars

\* C35: a selection step of greedy for cell j walks the list
\* costs_order[get_costs_idx(demand)][j] from its beginning, skipping the
\* buckets with no users left: no element before the selected one, back to
\* the head of the list, has users left and a lower reduced cost.
C35_Restart ==
    [][\A w \in Workers :
        (commits(w) /\ th[w].pc = "greedy_select") =>
            LET s == th[w]
                j == s.order[s.pos]
                list == statistics.costs_order[get_costs_idx(s.demand)][j]
                new == th'[w].inserted_indexes[Len(th'[w].inserted_indexes)]
            IN  /\ new \in Range(list)
                /\ s.users_available[convert_index(new)] > 0
                /\ \A q \in 1 .. (position(list, new) - 1) :
                      s.users_available[convert_index(list[q])] > 0 =>
                          effective_leq(s.demand, new, list[q])]_vars

\* Two selection steps for a cell have selected the same element, the head
\* of the one list both walked.
C35_Witness ==
    \E w \in Started :
        LET s == th[w]
            n == Len(s.inserted_indexes)
        IN  /\ s.pc = "greedy_select"
            /\ n = 2
            /\ s.inserted_indexes[1] = s.inserted_indexes[2]
            /\ problem.n_cust_types = 1
            /\ statistics.costs_order[0][s.order[s.pos]][1] = s.inserted_indexes[2]

\* ------------------------------------------- the lists of moves of a call

\* The tuples the solution moves users along.
moved_in(solution) == {x \in four_dimensions : solution[x] > 0}

\* The list holds the tuples of S, each once.
lists_once(list, S) == Range(list) = S /\ Len(list) = Cardinality(S)

\* statistics_moves as improving_setup has to leave it for the solution.
set_up(sm, solution) ==
    /\ \A b \in three_dimensions :
          /\ sm.users_available[b] = problem.users_available[b] - moved_from(solution, b)
          /\ sm.users_available[b] >= 0
    /\ \A j \in Cells : sm.done_in_j[j] = done_in(solution, j)
    /\ lists_once(sm.moves, moved_in(solution))
    /\ \A i \in Cells :
          lists_once(sm.moves_from_i[i], {x \in moved_in(solution) : x[1] = i})
    /\ \A j \in Cells :
          lists_once(sm.moves_to_j[j], {x \in moved_in(solution) : x[2] = j})

\* Worker w is inside improving_phase, between two calls of try_improve or
\* before the first: where the next root is picked.
picks_root(w) ==
    th[w].pc \in {"ip_for_a", "ip_for_m", "ip_while"}

\* C36 as stated: whenever improving_phase picks a root, the lists of moves
\* hold every tuple the solution moves users along.
C36_Original ==
    \A w \in Started :
        picks_root(w) =>
            \A x \in moved_in(th[w].best_solution) :
                /\ x \in Range(th[w].sm.moves)
                /\ x \in Range(th[w].sm.moves_from_i[x[1]])
                /\ x \in Range(th[w].sm.moves_to_j[x[2]])

\* C36: improving_setup on a feasible solution leaves users_available =
\* problem.users_available less the users moved, not negative, done_in_j the
\* activities done in each cell, and in moves, moves_from_i[i] and
\* moves_to_j[j] the tuples with users, each once; the lists are those of
\* the solution improving_phase was called with: for the rest of the call
\* they keep their elements (moves_to_j[j] may be sorted again), whatever
\* the committed chains do to the solution.
C36_MoveLists ==
    [][\A w \in Workers :
        /\ (th[w].pc = "improve" /\ th'[w].pc = "ip_for_a") =>
              /\ th'[w].best_solution = th[w].best_solution
              /\ set_up(th'[w].sm, th[w].best_solution)
        /\ (th[w].pc # "unstarted" /\ th[w].sm # <<>> /\ th'[w].sm # <<>>) =>
              /\ th'[w].sm.moves = th[w].sm.moves
              /\ th'[w].sm.moves_from_i = th[w].sm.moves_from_i
              /\ \A j \in Cells :
                    /\ Range(th'[w].sm.moves_to_j[j]) = Range(th[w].sm.moves_to_j[j])
                    /\ Len(th'[w].sm.moves_to_j[j]) = Len(th[w].sm.moves_to_j[j])]_vars

\* A chain has been committed and the next root is about to be picked: the
\* solution moves users along a tuple that is in none of the lists.
C36_Witness ==
    \E w \in Started :
        /\ th[w].pc = "ip_while"
        /\ th[w].chains > 0
        /\ th[w].sm.moves # <<>>
        /\ \E x \in moved_in(th[w].best_solution) :
              /\ x \notin Range(th[w].sm.moves)
              /\ x \notin Range(th[w].sm.moves_from_i[x[1]])
              /\ x \notin Range(th[w].sm.moves_to_j[x[2]])

\* ------------------------------------------------ what a worker has found

\* The least objective worker w holds: the one it has recorded, the best of
\* the round it is in, the value the greedy function has just returned.
known(w) ==
    LET s == th[w]
        in_round == s.pc \notin {"unstarted", "outer", "done"}
    IN  Min(param[w].obj_function,
            Min(IF in_round THEN s.best_objfun ELSE Infinity,
                IF s.pc = "after_greedy" THEN s.current_objfun ELSE Infinity))

\* C37: what a worker has found is never lost: the least objective it holds
\* (a value returned by a greedy run enters it at once, also in a round the
\* deadline cuts short before the improving phase) never grows and, when the
\* worker ends, is the objective it has recorded; when a worker has recorded
\* a finite objective v, solve() returns true and reports an objective <= v.
C37_BestKept ==
    /\ [][\A w \in Workers : known(w)' <= known(w)]_vars
    /\ [](\A w \in Workers :
            /\ th[w].pc \in {"outer", "done"} => known(w) = param[w].obj_function
            /\ (Returned /\ param[w].obj_function < Infinity) =>
                  /\ th[w].pc = "done"
                  /\ sv.result
                  /\ sv.has_solution
                  /\ sv.kpi[1] <= param[w].obj_function)

\* solve() has returned true with the objective of a worker whose last
\* round the deadline cut short: fewer than iteration_limit greedy runs, and
\* no call of try_improve ever made.
C37_Witness ==
    /\ Returned
    /\ sv.result
    /\ \E w \in Workers :
         /\ th[w].iterations \in 1 .. (iteration_limit - 1)
         /\ th[w].calls = 0
         /\ th[w].gain = -1
         /\ param[w].obj_function < Infinity
         /\ sv.kpi[1] = param[w].obj_function

\* ------------------------------------------------------ the life of a timer

\* solve() is inside timer::stop of one of its timers.
stopping ==
    sv.pc \in {"stop_normal_timer", "join_normal_timer",
               "stop_fewusers_timer", "join_fewusers_timer"}

\* C38: whatever the order of the timeout, stop() and the destructor, a timer
\* executes its callback once in its life and its thread is joined once: a
\* stop() or a destructor after a stop() changes nothing; stop() returns only
\* when the timer thread has finished; solve() stops its timers only when
\* every worker has been joined.
C38_TimerLife ==
    /\ [](\A name \in TimerNames :
            /\ timers[name].callbacks <= 1
            /\ timers[name].joins <= 1
            /\ timers[name].pc \in {"finished", "destroyed"} => timers[name].callbacks = 1
            /\ timers[name].stopped =>
                  /\ timers[name].pc \in {"finished", "destroyed"}
                  /\ timers[name].joins = 1
            /\ timers[name].pc = "destroyed" => timers[name].stopped
            /\ timers[name].joins = 1 => timers[name].stopped)
    /\ [](stopping => sv.a = 0 /\ \A w \in Workers : th[w].pc = "done")
    /\ [][\A name \in TimerNames :
            /\ timers[name].stopped =>
                  timers'[name] \in {timers[name], [timers[name] EXCEPT !.pc = "destroyed"]}
            /\ timers'[name].joins # timers[name].joins =>
                  /\ timers[name].pc = "finished"
                  /\ timers[name].callbacks = 1
                  /\ \A w \in Workers : th[w].pc = "done"]_vars

\* solve() has returned and both destructors have run: one timer timed out
\* before it was stopped, the other was woken by stop(); each has executed
\* its callback once and has been joined once.
C38_Witness ==
    /\ Returned
    /\ \A name \in TimerNames :
         /\ timers[name].pc = "destroyed"
         /\ timers[name].callbacks = 1
         /\ timers[name].joins = 1
    /\ timers["normal_timer"].timed_out
    /\ ~timers["fewusers_timer"].timed_out

\* ---------------------------------------------- the pointer to the table

\* Worker w is in the 'few users' mode, or inside greedy_few_users.
scarce(w) ==
    th[w].few_users_mode \/ th[w].pc \in {"few_cell", "few_select", "null_dereference"}

\* C39: whatever the interleaving of the workers, none runs greedy_few_users
\* while statistics.act_slots is null: a worker enters the 'few users' mode
\* only from the test of the pointer, having found it set or having set it
\* itself, and the pointer, once set, is not reset during solve().
C39_TableSet ==
    /\ [](\A w \in Started :
            /\ scarce(w) => ~statistics.act_slots.null
            /\ th[w].pc # "null_dereference")
    /\ [][/\ ~statistics.act_slots.null => ~statistics'.act_slots.null
          /\ \A w \in Workers :
                (th[w].pc # "unstarted" /\ ~th[w].few_users_mode /\ th'[w].few_users_mode) =>
                    /\ th[w].pc \in {"check_slots", "new_slots"}
                    /\ th[w].pc = "check_slots" => ~statistics.act_slots.null
                    /\ th[w].pc = "new_slots" => statistics'.act_slots.built
                                                    = statistics.act_slots.built + 1
                    /\ ~statistics'.act_slots.null]_vars

\* Two workers are in the 'few users' mode, one of them inside
\* greedy_few_users, and one table has been built: one worker found the
\* pointer set by the other.
C39_Witness ==
    /\ nthreads = 2
    /\ statistics.act_slots.built = 1
    /\ \A w \in Workers : th[w].few_users_mode
    /\ \E w \in Workers : th[w].pc = "few_select"

\* ------------------------------------------------ what the workers share

\* The step is one of worker w: it moves w and no other worker.
step_of(w) ==
    /\ th[w].pc # "unstarted"
    /\ th'[w] # th[w]

\* C40: once initialization_phase has joined its threads nothing writes the
\* problem, the statistics or the lists of candidates; a step of a worker
\* writes the locals and the th_parameter of that worker only, and reads of
\* the others no more than the two flags; solve() reads the th_parameter of
\* a worker when it has joined it.
C40_Immutable ==
    [][/\ Initialized => (problem' = problem /\ statistics' = statistics)
       /\ \A w \in Workers :
             step_of(w) =>
                /\ sv' = sv
                /\ timers' = timers
                /\ time_finished' = time_finished
                /\ fewusers_time_finished' = fewusers_time_finished
                /\ \A v \in Workers \ {w} : th'[v] = th[v] /\ param'[v] = param[v]
       /\ \A w \in Workers :
             (param'[w] # param[w] /\ th[w].pc # "unstarted") => step_of(w)
       /\ (sv.pc = "join" /\ sv' # sv) => th[sv.a].pc = "done"]_vars
====
